---- MODULE Spec2Model ----
(***************************************************************************)
(* Model of Utilities/build-script-helper.py (Python 2 semantics: map()    *)
(* returns a list, str has .decode).                                       *)
(*                                                                         *)
(* The script is sequential.  Every function of the script that issues     *)
(* external commands or filesystem calls is an operator that returns the   *)
(* sequence of those calls, in program order, with the argument lists the  *)
(* code assembles.  The run then executes that sequence one call at a      *)
(* time: each call is appended to log, changes the files, and a fatal      *)
(* call that fails ends the run with a nonzero exit status.                *)
(*                                                                         *)
(* Strings are sequences of pieces (concatenation is \o), paths are        *)
(* sequences of strings (os.path.join appends a component).                *)
(***************************************************************************)
EXTENDS Integers, Sequences, FiniteSets, TLC

VARIABLES system, args, targets, todo, log, files, env, pc, exit_status,
          absent, linked, history

vars == <<system, args, targets, todo, log, files, env, pc, exit_status,
          absent, linked, history>>

-----------------------------------------------------------------------------
(* Strings, paths, flags, commands *)

S(a) == <<a>>

join(p, c) == Append(p, c)

None == <<>>

F(name, val) == [name |-> name, val |-> val]

Cmd(tool, cwd, ins, out, flags, swift_flags) ==
  [tool |-> tool, cwd |-> cwd, ins |-> ins, out |-> out,
   flags |-> flags, swift_flags |-> swift_flags]

RECURSIVE Flatten(_)
Flatten(ss) == IF ss = <<>> THEN <<>> ELSE Head(ss) \o Flatten(Tail(ss))

Range(s) == {s[i] : i \in 1..Len(s)}

IsPrefix(p, q) == Len(p) <= Len(q) /\ SubSeq(q, 1, Len(p)) = p

-----------------------------------------------------------------------------
(* Bounds and input sets *)

MaxTargets == 2

MaxPrefixes == 2

Systems == {"Darwin", "Linux"}

Actions == {"build", "clean", "test", "install"}

Configurations == {"debug", "release"}

ArmMac == S("arm64-apple-macos10.15")

IntelMac == S("x86_64-apple-macos10.15")

ArmLinux == S("aarch64-unknown-linux-gnu")

CrossTargets == {ArmMac, IntelMac, ArmLinux}

\* lists of distinct targets (the spec's Target is a set) of length <= MaxTargets
CrossHostLists ==
  {ts \in UNION {[1..n -> CrossTargets] : n \in 0..MaxTargets} :
     \A i, j \in 1..Len(ts) : i # j => ts[i] # ts[j]}

PrefixName(i) == <<S("prefix"), S(ToString(i))>>

\* --prefix with the first k of the available prefixes; k = 0 is "not given"
PrefixLists == {[i \in 1..k |-> PrefixName(i)] : k \in 0..MaxPrefixes}

ExitCodes == {0, 1, 2}

-----------------------------------------------------------------------------
(* Module-level constants of the script *)

macos_deployment_target == S("10.15")

shared_lib_ext(sys) == IF sys = "Darwin" THEN S(".dylib") ELSE S(".so")

driver_toolchain_tools ==
  <<"swift", "swift-frontend", "clang", "swift-help",
    "swift-autolink-extract", "lldb">>

\* tool.upper().replace('-', '_') (line 188)
tool_env_name(tool) ==
  CASE tool = "swift" -> S("SWIFT")
    [] tool = "swift-frontend" -> S("SWIFT_FRONTEND")
    [] tool = "clang" -> S("CLANG")
    [] tool = "swift-help" -> S("SWIFT_HELP")
    [] tool = "swift-autolink-extract" -> S("SWIFT_AUTOLINK_EXTRACT")
    [] tool = "lldb" -> S("LLDB")

\* os.path.abspath of the three path arguments
PackagePath == <<S("src"), S("swift-driver")>>

BuildPath == <<S("build")>>

Toolchain == <<S("toolchain")>>

SdkPath == <<S("sdk")>>

dirname(p) == SubSeq(p, 1, Len(p) - 1)

basename(p) == p[Len(p)]

\* 'apple-macos' in target
has_apple_macos(t) ==
  t[1] \in {"arm64-apple-macos10.15", "x86_64-apple-macos10.15",
            "x86_64-apple-macosx"}

\* target.split('-')[0]
arch_of(t) ==
  CASE t[1] = "arm64-apple-macos10.15" -> S("arm64")
    [] t[1] = "aarch64-unknown-linux-gnu" -> S("aarch64")
    [] OTHER -> S("x86_64")

\* the unversionedTriple printed by swiftc -print-target-info on the host
HostTriple(sys) ==
  IF sys = "Darwin" THEN S("x86_64-apple-macosx")
  ELSE S("x86_64-unknown-linux-gnu")

-----------------------------------------------------------------------------
(* The calls each function of the script issues, in program order *)

mkdir_p(path) == Cmd("mkdir_p", None, <<>>, path, <<>>, <<>>)

cmake_build(a, swiftc_exec, cmake_args, swift_flags, source_path, build_dir, ninja_target) ==
  LET sf == IF a.sysroot # None
            THEN Append(swift_flags, F("-sdk", a.sysroot))
            ELSE swift_flags
      cmd == Cmd("cmake", build_dir, <<source_path>>, None,
                 <<F("-G", <<S("Ninja")>>),
                   F("-DCMAKE_MAKE_PROGRAM", a.ninja_bin),
                   F("-DCMAKE_BUILD_TYPE:", <<S("Release")>>),
                   F("-DCMAKE_Swift_COMPILER:", swiftc_exec)>> \o cmake_args,
                 sf)
      ninja_cmd == Cmd("ninja", build_dir,
                       IF ninja_target # None THEN <<ninja_target>> ELSE <<>>,
                       None,
                       IF a.verbose THEN <<F("-v", None)>> ELSE <<>>,
                       <<>>)
  IN <<mkdir_p(build_dir), cmd, ninja_cmd>>

\* build_llbuild_using_cmake without the ninja target of line 453
build_llbuild_whole_graph(a, target, swiftc_exec, build_dir, base_cmake_flags, swift_flags) ==
  LET llbuild_source_dir == join(dirname(a.package_path), S("llbuild"))
      llbuild_build_dir == join(build_dir, S("llbuild"))
      llbuild_api_dir == join(llbuild_build_dir, S(".cmake/api/v1/query"))
      flags == <<F("-DCMAKE_C_COMPILER:", <<S("clang")>>),
                 F("-DCMAKE_CXX_COMPILER:", <<S("clang++")>>),
                 F("-DCMAKE_CXX_FLAGS=-target", <<target>>),
                 F("-DLLBUILD_SUPPORT_BINDINGS:", <<S("Swift")>>)>>
               \o (IF a.system = "Darwin"
                   THEN <<F("-DCMAKE_OSX_ARCHITECTURES", <<arch_of(target)>>)>>
                   ELSE <<>>)
      llbuild_cmake_flags ==
        base_cmake_flags \o flags
        \o (IF a.sysroot # None
            THEN <<F("-DSQLite3_INCLUDE_DIR",
                     a.sysroot \o <<S("usr"), S("include")>>)>>
                 \o (IF a.system = "Darwin"
                     THEN <<F("-DSQLite3_LIBRARY",
                              a.sysroot \o <<S("usr"), S("lib"),
                                             S("libsqlite3.tbd")>>)>>
                     ELSE <<>>)
            ELSE <<>>)
  IN <<mkdir_p(llbuild_api_dir),
       Cmd("touch", None, <<>>, join(llbuild_api_dir, S("codemodel-v2")),
           <<>>, <<>>)>>
     \o cmake_build(a, swiftc_exec, llbuild_cmake_flags, swift_flags,
                    llbuild_source_dir, llbuild_build_dir, None)

build_llbuild_using_cmake(a, target, swiftc_exec, build_dir, base_cmake_flags, swift_flags) ==
  LET llbuild_source_dir == join(dirname(a.package_path), S("llbuild"))
      llbuild_build_dir == join(build_dir, S("llbuild"))
      llbuild_api_dir == join(llbuild_build_dir, S(".cmake/api/v1/query"))
      flags == <<F("-DCMAKE_C_COMPILER:", <<S("clang")>>),
                 F("-DCMAKE_CXX_COMPILER:", <<S("clang++")>>),
                 F("-DCMAKE_CXX_FLAGS=-target", <<target>>),
                 F("-DLLBUILD_SUPPORT_BINDINGS:", <<S("Swift")>>)>>
               \o (IF a.system = "Darwin"
                   THEN <<F("-DCMAKE_OSX_ARCHITECTURES", <<arch_of(target)>>)>>
                   ELSE <<>>)
      llbuild_cmake_flags ==
        base_cmake_flags \o flags
        \o (IF a.sysroot # None
            THEN <<F("-DSQLite3_INCLUDE_DIR",
                     a.sysroot \o <<S("usr"), S("include")>>)>>
                 \o (IF a.system = "Darwin"
                     THEN <<F("-DSQLite3_LIBRARY",
                              a.sysroot \o <<S("usr"), S("lib"),
                                             S("libsqlite3.tbd")>>)>>
                     ELSE <<>>)
            ELSE <<>>)
  IN <<mkdir_p(llbuild_api_dir),
       Cmd("touch", None, <<>>, join(llbuild_api_dir, S("codemodel-v2")),
           <<>>, <<>>)>>
     \o cmake_build(a, swiftc_exec, llbuild_cmake_flags, swift_flags,
                    llbuild_source_dir, llbuild_build_dir,
                    <<S("products/all")>>)

build_tsc_using_cmake(a, target, swiftc_exec, build_dir, base_cmake_flags, swift_flags) ==
  LET tsc_source_dir ==
        join(dirname(a.package_path), S("swift-tools-support-core"))
      tsc_build_dir == join(build_dir, S("swift-tools-support-core"))
  IN cmake_build(a, swiftc_exec, base_cmake_flags, swift_flags,
                 tsc_source_dir, tsc_build_dir, None)

build_yams_using_cmake(a, target, swiftc_exec, build_dir, base_cmake_flags, swift_flags) ==
  LET yams_source_dir == join(dirname(a.package_path), S("yams"))
      yams_build_dir == join(build_dir, S("yams"))
      yams_cmake_flags ==
        base_cmake_flags
        \o <<F("-DCMAKE_C_COMPILER:", <<S("clang")>>),
             F("-DBUILD_SHARED_LIBS", <<S("OFF")>>)>>
        \o (IF a.system = "Darwin"
            THEN <<F("-DCMAKE_OSX_DEPLOYMENT_TARGET",
                     <<macos_deployment_target>>),
                   F("-DCMAKE_C_FLAGS=-target", <<target>>)>>
            ELSE <<F("-DCMAKE_C_FLAGS=-fPIC -target", <<target>>)>>
                 \o (IF a.dispatch_build_dir # None
                     THEN <<F("-Ddispatch_DIR",
                              join(a.dispatch_build_dir, S("cmake/modules")))>>
                     ELSE <<>>)
                 \o (IF a.foundation_build_dir # None
                     THEN <<F("-DFoundation_DIR",
                              join(a.foundation_build_dir,
                                   S("cmake/modules")))>>
                     ELSE <<>>))
  IN cmake_build(a, swiftc_exec, yams_cmake_flags, swift_flags,
                 yams_source_dir, yams_build_dir, None)

build_argument_parser_using_cmake(a, target, swiftc_exec, build_dir, base_cmake_flags, swift_flags) ==
  LET parser_source_dir ==
        join(dirname(a.package_path), S("swift-argument-parser"))
      parser_build_dir == join(build_dir, S("swift-argument-parser"))
      custom_flags == <<F("-DBUILD_TESTING", <<S("NO")>>),
                        F("-DBUILD_EXAMPLES", <<S("NO")>>)>>
      parser_cmake_flags == base_cmake_flags \o custom_flags
  IN cmake_build(a, swiftc_exec, parser_cmake_flags, swift_flags,
                 parser_source_dir, parser_build_dir, None)

\* build_swift_driver_using_cmake with the Yams hint left out
build_swift_driver_no_yams_hint(a, target, swiftc_exec, build_dir, base_cmake_flags, swift_flags) ==
  LET driver_source_dir == a.package_path
      driver_build_dir == build_dir
      dependencies_dir == join(build_dir, S("dependencies"))
      flags ==
        <<F("-DLLBuild_DIR",
            join(join(dependencies_dir, S("llbuild")), S("cmake/modules"))),
          F("-DTSC_DIR",
            join(join(dependencies_dir, S("swift-tools-support-core")),
                 S("cmake/modules"))),
          F("-DArgumentParser_DIR",
            join(join(dependencies_dir, S("swift-argument-parser")),
                 S("cmake/modules")))>>
      driver_cmake_flags == base_cmake_flags \o flags
  IN cmake_build(a, swiftc_exec, driver_cmake_flags, swift_flags,
                 driver_source_dir, driver_build_dir, None)

build_swift_driver_using_cmake(a, target, swiftc_exec, build_dir, base_cmake_flags, swift_flags) ==
  LET driver_source_dir == a.package_path
      driver_build_dir == build_dir
      dependencies_dir == join(build_dir, S("dependencies"))
      flags ==
        <<F("-DLLBuild_DIR",
            join(join(dependencies_dir, S("llbuild")), S("cmake/modules"))),
          F("-DTSC_DIR",
            join(join(dependencies_dir, S("swift-tools-support-core")),
                 S("cmake/modules"))),
          F("-DYams_DIR",
            join(join(dependencies_dir, S("yams")), S("cmake/modules"))),
          F("-DArgumentParser_DIR",
            join(join(dependencies_dir, S("swift-argument-parser")),
                 S("cmake/modules")))>>
      driver_cmake_flags == base_cmake_flags \o flags
  IN cmake_build(a, swiftc_exec, driver_cmake_flags, swift_flags,
                 driver_source_dir, driver_build_dir, None)

\* lines 406-425: the five builds of one iteration of "for target in targets"
build_one_target_yams_first(a, target, swiftc_exec, build_dir, base_cmake_flags, swift_flags) ==
  LET cmake_target_dir == join(build_dir, target)
      driver_dir == join(cmake_target_dir, S(a.configuration))
      dependencies_dir == join(driver_dir, S("dependencies"))
  IN build_llbuild_using_cmake(a, target, swiftc_exec, dependencies_dir,
                               base_cmake_flags, swift_flags)
     \o build_tsc_using_cmake(a, target, swiftc_exec, dependencies_dir,
                              base_cmake_flags, swift_flags)
     \o build_yams_using_cmake(a, target, swiftc_exec, dependencies_dir,
                               base_cmake_flags, swift_flags)
     \o build_argument_parser_using_cmake(a, target, swiftc_exec,
                                          dependencies_dir,
                                          base_cmake_flags, swift_flags)
     \o build_swift_driver_using_cmake(a, target, swiftc_exec, driver_dir,
                                       base_cmake_flags, swift_flags)

build_one_target(a, target, swiftc_exec, build_dir, base_cmake_flags, swift_flags) ==
  LET cmake_target_dir == join(build_dir, target)
      driver_dir == join(cmake_target_dir, S(a.configuration))
      dependencies_dir == join(driver_dir, S("dependencies"))
  IN build_llbuild_using_cmake(a, target, swiftc_exec, dependencies_dir,
                               base_cmake_flags, swift_flags)
     \o build_tsc_using_cmake(a, target, swiftc_exec, dependencies_dir,
                              base_cmake_flags, swift_flags)
     \o build_argument_parser_using_cmake(a, target, swiftc_exec,
                                          dependencies_dir,
                                          base_cmake_flags, swift_flags)
     \o build_yams_using_cmake(a, target, swiftc_exec, dependencies_dir,
                               base_cmake_flags, swift_flags)
     \o build_swift_driver_using_cmake(a, target, swiftc_exec, driver_dir,
                                       base_cmake_flags, swift_flags)

\* lines 401-404 and the loop "for target in targets" of build_using_cmake;
\* swift_flags0 and base_cmake_flags0 are the two lists as the previous
\* iteration left them: the loop appends to them and never resets them
RECURSIVE build_using_cmake_loop(_, _, _, _, _, _, _)
build_using_cmake_loop(a, swiftc_exec, build_dir, tgts, i, swift_flags0, base_cmake_flags0) ==
  IF i > Len(tgts) THEN <<>>
  ELSE
    LET target == tgts[i]
        swift_flags == Append(swift_flags0, F("-target", <<target>>))
        base_cmake_flags ==
          IF a.system = "Darwin"
          THEN Append(base_cmake_flags0,
                      F("-DCMAKE_OSX_DEPLOYMENT_TARGET",
                        <<macos_deployment_target>>))
          ELSE base_cmake_flags0
    IN build_one_target(a, target, swiftc_exec, build_dir,
                        base_cmake_flags, swift_flags)
       \o build_using_cmake_loop(a, swiftc_exec, build_dir, tgts, i + 1,
                                 swift_flags, base_cmake_flags)

build_using_cmake(a, toolchain_bin, build_dir, tgts) ==
  LET swiftc_exec == join(toolchain_bin, S("swiftc"))
      swift_flags ==
        (IF a.configuration = "debug"
         THEN <<F("-Onone", None), F("-DDEBUG", None)>>
         ELSE <<>>)
        \o <<F("-module-cache-path", join(build_dir, S("module-cache")))>>
  IN build_using_cmake_loop(a, swiftc_exec, build_dir, tgts, 1,
                            swift_flags, <<>>)

-----------------------------------------------------------------------------
(* Installation *)

\* f applied to every element of s, results concatenated (a for loop)
ForEach(s, f(_)) == Flatten([i \in 1..Len(s) |-> f(s[i])])

install_binary(file, source_dir, install_dir, verbose) ==
  Cmd("rsync", None, <<join(source_dir, file)>>, install_dir,
      <<F("-a", None)>>, <<>>)

delete_rpath(rpath, binary, verbose) ==
  Cmd("install_name_tool", None, <<binary>>, None,
      <<F("-delete_rpath", rpath)>>, <<>>)

\* add_rpath issuing the option of delete_rpath, of which it is a copy
add_rpath_as_delete(rpath, binary, verbose) ==
  Cmd("install_name_tool", None, <<binary>>, None,
      <<F("-delete_rpath", rpath)>>, <<>>)

add_rpath(rpath, binary, verbose) ==
  Cmd("install_name_tool", None, <<binary>>, None,
      <<F("-add_rpath", rpath)>>, <<>>)

lipo(inputs, output) ==
  Cmd("lipo", None, inputs, output,
      <<F("-create", None), F("-output", output)>>, <<>>)

InstallRpath == <<S("@executable_path/../lib/swift/macosx")>>

ExecutableNames == <<S("swift-driver"), S("swift-help")>>

\* the fix-up without the delete of the swift-argument-parser lib directory
fixup_rpaths_no_argument_parser(a, build_dir, exe, target) ==
  LET exe_bin_path ==
        build_dir \o <<target, S(a.configuration), S("bin"), exe>>
      driver_lib_dir_path ==
        build_dir \o <<target, S(a.configuration), S("lib")>>
      dep_delete(lib) ==
        <<delete_rpath(build_dir \o <<target, S(a.configuration),
                                      S("dependencies"), lib, S("lib")>>,
                       exe_bin_path, a.verbose)>>
  IN <<delete_rpath(driver_lib_dir_path, exe_bin_path, a.verbose)>>
     \o ForEach(<<S("swift-tools-support-core")>>, dep_delete)
     \o <<add_rpath(InstallRpath, exe_bin_path, a.verbose)>>

\* the rpath fix-up of one executable for one target (lines 255-268)
fixup_rpaths(a, build_dir, exe, target) ==
  LET exe_bin_path ==
        build_dir \o <<target, S(a.configuration), S("bin"), exe>>
      driver_lib_dir_path ==
        build_dir \o <<target, S(a.configuration), S("lib")>>
      dep_delete(lib) ==
        <<delete_rpath(build_dir \o <<target, S(a.configuration),
                                      S("dependencies"), lib, S("lib")>>,
                       exe_bin_path, a.verbose)>>
  IN <<delete_rpath(driver_lib_dir_path, exe_bin_path, a.verbose)>>
     \o ForEach(<<S("swift-tools-support-core"), S("swift-argument-parser")>>,
                dep_delete)
     \o <<add_rpath(InstallRpath, exe_bin_path, a.verbose)>>

\* install_executables with the merge of an executable ahead of its fix-up
install_executables_merge_first(a, build_dir, universal_bin_dir, toolchain_bin_dir, tgts) ==
  LET one_exe(exe) ==
        LET fix(target) == fixup_rpaths(a, build_dir, exe, target)
            output_bin_path == join(universal_bin_dir, exe)
            input_bin_path(target) ==
              build_dir \o <<target, S(a.configuration), S("bin"), exe>>
        IN <<lipo([i \in 1..Len(tgts) |-> input_bin_path(tgts[i])],
                  output_bin_path),
             install_binary(exe, universal_bin_dir, toolchain_bin_dir,
                            a.verbose)>>
           \o ForEach(tgts, fix)
  IN ForEach(ExecutableNames, one_exe)

install_executables(a, build_dir, universal_bin_dir, toolchain_bin_dir, tgts) ==
  LET one_exe(exe) ==
        LET fix(target) == fixup_rpaths(a, build_dir, exe, target)
            output_bin_path == join(universal_bin_dir, exe)
            input_bin_path(target) ==
              build_dir \o <<target, S(a.configuration), S("bin"), exe>>
        IN ForEach(tgts, fix)
           \o <<lipo([i \in 1..Len(tgts) |-> input_bin_path(tgts[i])],
                     output_bin_path),
                install_binary(exe, universal_bin_dir, toolchain_bin_dir,
                               a.verbose)>>
  IN ForEach(ExecutableNames, one_exe)

\* install_library that copies the only input when there is one target
install_library_skip_single(a, build_dir, package_subpath, lib_name, universal_lib_dir, toolchain_lib_dir, package_name, tgts) ==
  LET shared_lib_file == lib_name \o shared_lib_ext(a.system)
      output_dylib_path == join(universal_lib_dir, shared_lib_file)
      input_lib_dir(target) ==
        join(build_dir, target) \o package_subpath \o <<S("lib")>>
  IN IF Len(tgts) = 1
     THEN <<install_binary(shared_lib_file, input_lib_dir(tgts[1]),
                           toolchain_lib_dir, a.verbose)>>
     ELSE <<lipo([i \in 1..Len(tgts) |->
                    join(input_lib_dir(tgts[i]), shared_lib_file)],
                 output_dylib_path),
            install_binary(shared_lib_file, universal_lib_dir,
                           toolchain_lib_dir, a.verbose)>>

install_library(a, build_dir, package_subpath, lib_name, universal_lib_dir, toolchain_lib_dir, package_name, tgts) ==
  LET shared_lib_file == lib_name \o shared_lib_ext(a.system)
      output_dylib_path == join(universal_lib_dir, shared_lib_file)
      input_lib_path(target) ==
        join(build_dir, target) \o package_subpath
        \o <<S("lib"), shared_lib_file>>
  IN <<lipo([i \in 1..Len(tgts) |-> input_lib_path(tgts[i])],
            output_dylib_path),
       install_binary(shared_lib_file, universal_lib_dir, toolchain_lib_dir,
                      a.verbose)>>

install_libraries(a, build_dir, universal_lib_dir, toolchain_lib_dir, tgts) ==
  LET ext == shared_lib_ext(a.system)
      cfg == S(a.configuration)
      \* lines 285-291
      fix_driver(lib) ==
        LET per_target(target) ==
              <<delete_rpath(build_dir \o <<target, cfg, S("lib")>>,
                             build_dir \o <<target, cfg, S("lib"), lib \o ext>>,
                             a.verbose)>>
        IN ForEach(tgts, per_target)
      \* lines 294-305
      driver_libs ==
        <<<<S("lib"), S("libSwiftDriver")>>, <<S("lib"), S("libSwiftOptions")>>,
          <<S("lib"), S("libSwiftDriverExecution")>>>>
      tsc_dir == <<S("dependencies"), S("swift-tools-support-core"), S("lib")>>
      tsc_libs ==
        <<join(tsc_dir, S("libTSCBasic")), join(tsc_dir, S("libTSCLibc")),
          join(tsc_dir, S("libTSCUtility"))>>
      fix_deps(lib) ==
        LET per_target(target) ==
              LET lib_path ==
                    build_dir \o <<target, cfg>> \o dirname(lib)
                    \o <<basename(lib) \o ext>>
                  per_dep(dep) ==
                    <<delete_rpath(build_dir \o <<target, cfg,
                                                  S("dependencies"), dep,
                                                  S("lib")>>,
                                   lib_path, a.verbose)>>
              IN ForEach(<<S("swift-tools-support-core"), S("llbuild")>>,
                         per_dep)
        IN ForEach(tgts, per_target)
      inst_driver(lib) ==
        install_library(a, build_dir, <<cfg>>, lib, universal_lib_dir,
                        toolchain_lib_dir, S("swift-driver"), tgts)
      inst_tsc(lib) ==
        install_library(a, build_dir,
                        <<cfg, S("dependencies"),
                          S("swift-tools-support-core")>>,
                        lib, universal_lib_dir, toolchain_lib_dir,
                        S("swift-tools-support-core"), tgts)
      inst_llbuild(lib) ==
        install_library(a, build_dir,
                        <<cfg, S("dependencies"), S("llbuild")>>,
                        lib, universal_lib_dir, toolchain_lib_dir,
                        S("llbuild"), tgts)
  IN ForEach(<<S("libSwiftDriver"), S("libSwiftDriverExecution")>>, fix_driver)
     \o ForEach(driver_libs \o tsc_libs, fix_deps)
     \o ForEach(<<S("libSwiftDriver"), S("libSwiftOptions"),
                  S("libSwiftDriverExecution")>>, inst_driver)
     \o ForEach(<<S("libTSCBasic"), S("libTSCLibc"), S("libTSCUtility")>>,
                inst_tsc)
     \o install_library(a, build_dir,
                        <<cfg, S("dependencies"), S("swift-argument-parser")>>,
                        S("libArgumentParser"), universal_lib_dir,
                        toolchain_lib_dir, S("swift-argument-parser"), tgts)
     \o ForEach(<<S("libllbuildSwift"), S("libllbuild")>>, inst_llbuild)

ModuleExts == <<S(".swiftmodule"), S(".swiftdoc")>>

\* install_module leaving the .swiftdoc under the name of the module
install_module_swiftmodule_renamed_only(a, build_dir, package_subpath, toolchain_lib, module_name, tgts) ==
  LET toolchain_module_dir ==
        join(toolchain_lib, module_name \o S(".swiftmodule"))
      per_target(target) ==
        LET swift_dir == join(build_dir, target) \o package_subpath
            per_ext(fileext) ==
              <<install_binary(module_name \o fileext, swift_dir,
                               toolchain_module_dir, a.verbose)>>
              \o (IF fileext = S(".swiftmodule")
                  THEN <<Cmd("os.rename", None,
                             <<join(toolchain_module_dir,
                                    module_name \o fileext)>>,
                             join(toolchain_module_dir, target \o fileext),
                             <<>>, <<>>)>>
                  ELSE <<>>)
        IN ForEach(ModuleExts, per_ext)
  IN <<mkdir_p(toolchain_module_dir)>> \o ForEach(tgts, per_target)

\* install_module clearing the module directory first, the way
\* install_include_artifacts clears the include directory
install_module_fresh_dir(a, build_dir, package_subpath, toolchain_lib, module_name, tgts) ==
  LET toolchain_module_dir ==
        join(toolchain_lib, module_name \o S(".swiftmodule"))
      per_target(target) ==
        LET swift_dir == join(build_dir, target) \o package_subpath
            per_ext(fileext) ==
              <<install_binary(module_name \o fileext, swift_dir,
                               toolchain_module_dir, a.verbose),
                Cmd("os.rename", None,
                    <<join(toolchain_module_dir, module_name \o fileext)>>,
                    join(toolchain_module_dir, target \o fileext),
                    <<>>, <<>>)>>
        IN ForEach(ModuleExts, per_ext)
  IN <<Cmd("shutil.rmtree", None, <<>>, toolchain_module_dir,
           <<F("ignore_errors", None)>>, <<>>),
       mkdir_p(toolchain_module_dir)>>
     \o ForEach(tgts, per_target)

install_module(a, build_dir, package_subpath, toolchain_lib, module_name, tgts) ==
  LET toolchain_module_dir ==
        join(toolchain_lib, module_name \o S(".swiftmodule"))
      per_target(target) ==
        LET swift_dir == join(build_dir, target) \o package_subpath
            per_ext(fileext) ==
              <<install_binary(module_name \o fileext, swift_dir,
                               toolchain_module_dir, a.verbose),
                Cmd("os.rename", None,
                    <<join(toolchain_module_dir, module_name \o fileext)>>,
                    join(toolchain_module_dir, target \o fileext),
                    <<>>, <<>>)>>
        IN ForEach(ModuleExts, per_ext)
  IN <<mkdir_p(toolchain_module_dir)>> \o ForEach(tgts, per_target)

install_binary_swift_modules(a, build_dir, toolchain_lib_dir, tgts) ==
  LET product_subpath == S("swift")
      cfg == S(a.configuration)
      driver(module) ==
        install_module(a, build_dir, <<cfg, product_subpath>>,
                       toolchain_lib_dir, module, tgts)
      tsc(module) ==
        install_module(a, build_dir,
                       <<cfg, S("dependencies"),
                         S("swift-tools-support-core"), product_subpath>>,
                       toolchain_lib_dir, module, tgts)
  IN ForEach(<<S("SwiftDriver"), S("SwiftOptions")>>, driver)
     \o ForEach(<<S("TSCUtility"), S("TSCLibc"), S("TSCBasic")>>, tsc)
     \o install_module(a, build_dir,
                       <<cfg, S("dependencies"), S("swift-argument-parser"),
                         product_subpath>>,
                       toolchain_lib_dir, S("ArgumentParser"), tgts)

\* install_include_artifacts without the removal of the previous copy
install_include_artifacts_no_rmtree(a, toolchain_include_dir, src_include_dir, dst_module_name) ==
  LET toolchain_module_include_dir ==
        join(toolchain_include_dir, dst_module_name)
  IN <<Cmd("shutil.copytree", None, <<src_include_dir>>,
           toolchain_module_include_dir, <<>>, <<>>)>>

install_include_artifacts(a, toolchain_include_dir, src_include_dir, dst_module_name) ==
  LET toolchain_module_include_dir ==
        join(toolchain_include_dir, dst_module_name)
  IN <<Cmd("shutil.rmtree", None, <<>>, toolchain_module_include_dir,
           <<F("if os.path.exists", toolchain_module_include_dir),
             F("ignore_errors", None)>>, <<>>),
       Cmd("shutil.copytree", None, <<src_include_dir>>,
           toolchain_module_include_dir, <<>>, <<>>)>>

install_c_module_includes(a, build_dir, toolchain_include_dir) ==
  LET tscc_include_dir ==
        dirname(a.package_path)
        \o <<S("swift-tools-support-core"), S("Sources"), S("TSCclibc"),
             S("include")>>
  IN install_include_artifacts(a, toolchain_include_dir, tscc_include_dir,
                               S("TSCclibc"))

universal_dir_of(build_dir) ==
  join(build_dir, S("universal-apple-macos") \o macos_deployment_target)

install_swiftdriver(a, build_dir, prefix, tgts) ==
  LET install_bin == join(prefix, S("bin"))
      install_lib == prefix \o <<S("lib"), S("swift"), S("macosx")>>
      install_include == prefix \o <<S("include"), S("swift")>>
      universal_dir == universal_dir_of(build_dir)
      bin_dir == join(universal_dir, S("bin"))
      lib_dir == join(universal_dir, S("lib"))
  IN <<mkdir_p(universal_dir), mkdir_p(bin_dir), mkdir_p(lib_dir)>>
     \o install_executables(a, build_dir, bin_dir, install_bin, tgts)
     \o install_libraries(a, build_dir, lib_dir, install_lib, tgts)
     \o install_binary_swift_modules(a, build_dir, install_lib, tgts)
     \o install_c_module_includes(a, build_dir, install_include)

\* install passing the first prefix in every repetition
install_first_prefix(a, build_dir, tgts) ==
  LET per_prefix(prefix) ==
        install_swiftdriver(a, build_dir, a.install_prefixes[1], tgts)
  IN ForEach(a.install_prefixes, per_prefix)

install(a, build_dir, tgts) ==
  LET per_prefix(prefix) == install_swiftdriver(a, build_dir, prefix, tgts)
  IN ForEach(a.install_prefixes, per_prefix)

\* non_darwin_install copying swift-driver only
non_darwin_install_driver_only(swiftpm_bin_path, toolchain, verbose) ==
  LET toolchain_bin == join(toolchain, S("bin"))
  IN <<install_binary(S("swift-driver"), swiftpm_bin_path, toolchain_bin,
                      verbose)>>

non_darwin_install(swiftpm_bin_path, toolchain, verbose) ==
  LET toolchain_bin == join(toolchain, S("bin"))
      per_exe(exe) ==
        <<install_binary(exe, swiftpm_bin_path, toolchain_bin, verbose)>>
  IN ForEach(ExecutableNames, per_exe)

-----------------------------------------------------------------------------
(* SwiftPM invocations *)

\* 'ANDROID_DATA' in os.environ
AndroidData == FALSE

get_swiftpm_options(a) ==
  <<F("--package-path", a.package_path), F("--build-path", a.build_path),
    F("--configuration", <<S(a.configuration)>>)>>
  \o (IF a.verbose THEN <<F("--verbose", None)>> ELSE <<>>)
  \o (IF a.system = "Darwin"
      THEN <<F("-Xlinker -rpath -Xlinker", InstallRpath)>>
      ELSE <<F("-Xcxx -I -Xcxx", a.toolchain \o <<S("lib"), S("swift")>>),
             F("-Xcxx -I -Xcxx",
               a.toolchain \o <<S("lib"), S("swift"), S("Block")>>)>>
           \o (IF AndroidData
               THEN <<F("-Xlinker -rpath -Xlinker",
                        <<S("$ORIGIN/../lib/swift/android")>>),
                      F("-Xswiftc -Xcc -Xswiftc", <<S("-U_GNU_SOURCE")>>)>>
               ELSE <<F("-Xlinker -rpath -Xlinker",
                        <<S("$ORIGIN/../lib/swift/linux")>>)>>))

swiftpm(action, swift_exec, swiftpm_args) ==
  Cmd("swift", None, <<>>, None, <<F(action, None)>> \o swiftpm_args, <<>>)

swiftpm_bin_path(swift_exec, swiftpm_args) ==
  Cmd("swift", None, <<>>, None,
      <<F("build", None), F("--show-bin-path", None)>>
      \o SelectSeq(swiftpm_args,
                   LAMBDA f : f.name # "-v" /\ f.name # "--verbose"),
      <<>>)

\* the directory "swift build --show-bin-path" prints
SwiftpmBinPath(a) == join(a.build_path, S(a.configuration))

\* should_test_parallel(): platform.linux_distribution()[0] is 'Ubuntu'
LinuxIsUbuntu == TRUE

should_test_parallel(sys) ==
  IF sys = "Linux" /\ ~LinuxIsUbuntu THEN FALSE ELSE TRUE

\* handle_invocation installing on Darwin before it builds
handle_invocation_calls_install_first(a, tgts) ==
  LET swiftpm_args == get_swiftpm_options(a)
      toolchain_bin == join(a.toolchain, S("bin"))
      swift_exec == join(toolchain_bin, S("swift"))
  IN CASE a.action = "build" ->
            build_using_cmake(a, toolchain_bin, a.build_path, tgts)
       [] a.action = "clean" ->
            <<Cmd("shutil.rmtree", None, <<>>, a.build_path,
                  <<F("ignore_errors", None)>>, <<>>)>>
       [] a.action = "test" ->
            <<swiftpm("test", swift_exec,
                      swiftpm_args
                      \o <<F("-Xswiftc", <<S("-enable-testing")>>)>>
                      \o (IF should_test_parallel(a.system)
                          THEN <<F("--parallel", None)>> ELSE <<>>))>>
       [] a.action = "install" ->
            IF a.system = "Darwin"
            THEN install(a, a.build_path, tgts)
                 \o build_using_cmake(a, toolchain_bin, a.build_path, tgts)
            ELSE <<swiftpm_bin_path(swift_exec, swiftpm_args),
                   swiftpm("build", swift_exec, swiftpm_args)>>
                 \o non_darwin_install(SwiftpmBinPath(a), a.toolchain,
                                       a.verbose)

\* the calls handle_invocation issues after the targets are resolved
\* (lines 178-207)
handle_invocation_calls(a, tgts) ==
  LET swiftpm_args == get_swiftpm_options(a)
      toolchain_bin == join(a.toolchain, S("bin"))
      swift_exec == join(toolchain_bin, S("swift"))
  IN CASE a.action = "build" ->
            build_using_cmake(a, toolchain_bin, a.build_path, tgts)
       [] a.action = "clean" ->
            <<Cmd("shutil.rmtree", None, <<>>, a.build_path,
                  <<F("ignore_errors", None)>>, <<>>)>>
       [] a.action = "test" ->
            <<swiftpm("test", swift_exec,
                      swiftpm_args
                      \o <<F("-Xswiftc", <<S("-enable-testing")>>)>>
                      \o (IF should_test_parallel(a.system)
                          THEN <<F("--parallel", None)>> ELSE <<>>))>>
       [] a.action = "install" ->
            IF a.system = "Darwin"
            THEN build_using_cmake(a, toolchain_bin, a.build_path, tgts)
                 \o install(a, a.build_path, tgts)
            ELSE <<swiftpm_bin_path(swift_exec, swiftpm_args),
                   swiftpm("build", swift_exec, swiftpm_args)>>
                 \o non_darwin_install(SwiftpmBinPath(a), a.toolchain,
                                       a.verbose)

-----------------------------------------------------------------------------
(* The filesystem and the external tools *)

exists(fs, p) == p \in DOMAIN fs

WriteFile(fs, p, c) == [q \in DOMAIN fs \cup {p} |-> IF q = p THEN c ELSE fs[q]]

RemoveFiles(fs, ps) == [q \in DOMAIN fs \ ps |-> fs[q]]

Under(fs, dir) == {q \in DOMAIN fs : IsPrefix(dir, q)}

Slice(t, rpaths) == [target |-> t, rpaths |-> rpaths]

\* the files the install code reads from the build directory of each package
\* (lines 255, 287-300, 336, 376), relative to that build directory
ProductsOfPackage(pkg, sys) ==
  LET ext == shared_lib_ext(sys)
      lib(n) == <<S("lib"), S(n) \o ext>>
      mods(m) == {<<S("swift"), S(m) \o ModuleExts[i]>> : i \in 1..2}
  IN CASE pkg = S("llbuild") -> {lib("libllbuildSwift"), lib("libllbuild")}
       [] pkg = S("swift-tools-support-core") ->
            {lib("libTSCBasic"), lib("libTSCLibc"), lib("libTSCUtility")}
            \cup mods("TSCUtility") \cup mods("TSCLibc") \cup mods("TSCBasic")
       [] pkg = S("swift-argument-parser") ->
            {lib("libArgumentParser")} \cup mods("ArgumentParser")
       [] pkg = S("yams") -> {}
       [] OTHER ->
            {<<S("bin"), S("swift-driver")>>, <<S("bin"), S("swift-help")>>,
             lib("libSwiftDriver"), lib("libSwiftOptions"),
             lib("libSwiftDriverExecution")}
            \cup mods("SwiftDriver") \cup mods("SwiftOptions")

\* the dependency packages whose lib directory the linker may record as a
\* search path of a freshly linked binary
LinkedDepChoices ==
  {{S("swift-tools-support-core"), S("swift-argument-parser")},
   {S("llbuild"), S("swift-tools-support-core"), S("swift-argument-parser"),
    S("yams")}}

\* ninja in build_dir: every product that is missing is built (and linked with
\* the build-tree search paths); a product that exists is up to date.
\* Products in missing are not produced by the package's build description.
NinjaEffect(fs, a, build_dir, deps, missing) ==
  LET n == Len(a.build_path)
      target == build_dir[n + 1]
      driver_dir == SubSeq(build_dir, 1, n + 2)
      pkg == IF Len(build_dir) = n + 2 THEN S("swift-driver")
             ELSE basename(build_dir)
      rpaths == {join(driver_dir, S("lib"))}
                \cup {driver_dir \o <<S("dependencies"), d, S("lib")>> :
                        d \in deps}
      made == {build_dir \o r : r \in ProductsOfPackage(pkg, a.system)}
              \ (missing \cup DOMAIN fs)
  IN [q \in DOMAIN fs \cup made |->
        IF q \in DOMAIN fs THEN fs[q]
        ELSE IF q[Len(q) - 1] = S("swift") THEN {Slice(target, {})}
        ELSE {Slice(target, rpaths)}]

\* install_name_tool -delete_rpath / -add_rpath: nonzero exit when the binary
\* is missing, when the path to delete is not there, or when the path to add
\* is there already
InstallNameToolExit(fs, c) ==
  LET binary == c.ins[1]
      rpath == c.flags[1].val
  IN IF ~exists(fs, binary) THEN 1
     ELSE IF c.flags[1].name = "-delete_rpath"
     THEN (IF \E sl \in fs[binary] : rpath \in sl.rpaths THEN 0 ELSE 1)
     ELSE (IF \E sl \in fs[binary] : rpath \in sl.rpaths THEN 1 ELSE 0)

InstallNameToolEffect(fs, c) ==
  LET binary == c.ins[1]
      rpath == c.flags[1].val
  IN IF InstallNameToolExit(fs, c) # 0 THEN fs
     ELSE IF c.flags[1].name = "-delete_rpath"
     THEN WriteFile(fs, binary,
                    {Slice(sl.target, sl.rpaths \ {rpath}) : sl \in fs[binary]})
     ELSE WriteFile(fs, binary,
                    {Slice(sl.target, sl.rpaths \cup {rpath}) :
                       sl \in fs[binary]})

\* lipo -create: one output holding the slices of all inputs
LipoInputsExist(fs, c) == \A i \in 1..Len(c.ins) : exists(fs, c.ins[i])

LipoEffect(fs, c) ==
  WriteFile(fs, c.out, UNION {fs[c.ins[i]] : i \in 1..Len(c.ins)})

\* rsync -a file dir
RsyncEffect(fs, c) ==
  WriteFile(fs, join(c.out, basename(c.ins[1])), fs[c.ins[1]])

RenameEffect(fs, c) ==
  RemoveFiles(WriteFile(fs, c.out, fs[c.ins[1]]), {c.ins[1]} \ {c.out})

RmtreeEffect(fs, c) == RemoveFiles(fs, Under(fs, c.out))

CopytreeEffect(fs, c) ==
  LET src == c.ins[1]
      moved(q) == c.out \o SubSeq(q, Len(src) + 1, Len(q))
      new == {moved(q) : q \in Under(fs, src)}
  IN [q \in DOMAIN fs \cup new |->
        IF q \in new
        THEN fs[CHOOSE r \in Under(fs, src) : moved(r) = q]
        ELSE fs[q]]

\* swift build: the two executables in the directory --show-bin-path prints
SwiftBuildEffect(fs, a) ==
  LET made == {join(SwiftpmBinPath(a), ExecutableNames[i]) : i \in 1..2}
  IN [q \in DOMAIN fs \cup made |->
        IF q \in DOMAIN fs THEN fs[q]
        ELSE {Slice(HostTriple(a.system),
                    {IF a.system = "Darwin" THEN InstallRpath
                     ELSE <<S("$ORIGIN/../lib/swift/linux")>>})}]

TsccIncludeDir ==
  dirname(PackagePath)
  \o <<S("swift-tools-support-core"), S("Sources"), S("TSCclibc"),
       S("include")>>

ToolchainBin == join(Toolchain, S("bin"))

\* a header an earlier release of the package installed in the first prefix
\* and the source tree no longer has
StaleHeader ==
  PrefixName(1) \o <<S("include"), S("swift"), S("TSCclibc"), S("process.h")>>

\* the source checkout, the toolchain and the first prefix before the run
InitialFiles ==
  LET fs == {join(TsccIncludeDir, S("module.modulemap")),
             join(TsccIncludeDir, S("TSCclibc.h")),
             join(ToolchainBin, S("swift")), join(ToolchainBin, S("swiftc")),
             join(ToolchainBin, S("swift-frontend")),
             join(ToolchainBin, S("clang")), StaleHeader}
  IN [q \in fs |-> {Slice(S("host"), {})}]

-----------------------------------------------------------------------------
(* The run *)

Entry(c, rc) == [cmd |-> c, rc |-> rc]

ArgsSet ==
  [action : Actions, system : Systems, cross_compile_hosts : CrossHostLists,
   install_prefixes : PrefixLists, configuration : Configurations,
   verbose : {FALSE}, sysroot : {None}, package_path : {PackagePath},
   build_path : {BuildPath}, toolchain : {Toolchain},
   ninja_bin : {<<S("ninja")>>}, cmake_bin : {<<S("cmake")>>},
   dispatch_build_dir : {None}, foundation_build_dir : {None},
   lit_test_dir : {None}, no_local_deps : {FALSE}]

Init ==
  /\ args \in ArgsSet
  /\ system = args.system
  /\ targets = <<>>
  /\ todo = <<>>
  /\ log = <<>>
  /\ files = InitialFiles
  /\ env = {}
  /\ pc = "main"
  /\ exit_status = 0
  /\ absent = {}
  /\ linked = {}
  /\ history = <<>>

\* error(): SystemExit(1); an uncaught exception ends the interpreter with 1
Die(entry, status) ==
  /\ log' = Append(log, entry)
  /\ todo' = <<>>
  /\ pc' = "exited"
  /\ exit_status' = status

Advance(entry) ==
  /\ log' = Append(log, entry)
  /\ todo' = Tail(todo)
  /\ UNCHANGED <<pc, exit_status>>

Running(tool) == pc = "run" /\ todo # <<>> /\ Head(todo).tool = tool

\* main with any() in place of all() in the test of line 614
main_any_apple_macos ==
  /\ pc = "main"
  /\ LET xcrun == Cmd("xcrun", None, <<>>, None,
                      <<F("--sdk", <<S("macosx")>>),
                        F("--show-sdk-path", None)>>, <<>>)
         hosts == args.cross_compile_hosts
         bad == hosts # <<>>
                /\ ~(\E i \in 1..Len(hosts) : has_apple_macos(hosts[i]))
     IN \E rc \in {0, 1} :
          /\ system = "Darwin" \/ rc = 0
          /\ IF system = "Darwin" /\ rc # 0
             THEN /\ Die(Entry(xcrun, rc), 1)
                  /\ UNCHANGED args
             ELSE /\ log' = IF system = "Darwin"
                            THEN Append(log, Entry(xcrun, 0)) ELSE log
                  /\ todo' = <<>>
                  /\ IF bad
                     THEN /\ pc' = "exited"
                          /\ exit_status' = 1
                          /\ args' = [args EXCEPT
                               !.sysroot = IF system = "Darwin" THEN SdkPath
                                           ELSE None]
                     ELSE /\ pc' = "handle_invocation"
                          /\ exit_status' = exit_status
                          /\ args' = [args EXCEPT
                               !.sysroot = IF system = "Darwin" THEN SdkPath
                                           ELSE None,
                               !.install_prefixes =
                                 IF args.install_prefixes = <<>>
                                 THEN <<args.toolchain>>
                                 ELSE args.install_prefixes]
  /\ UNCHANGED <<history, system, targets, files, env, absent, linked>>

\* lines 602-630
main ==
  /\ pc = "main"
  /\ LET xcrun == Cmd("xcrun", None, <<>>, None,
                      <<F("--sdk", <<S("macosx")>>),
                        F("--show-sdk-path", None)>>, <<>>)
         hosts == args.cross_compile_hosts
         bad == hosts # <<>>
                /\ ~(\A i \in 1..Len(hosts) : has_apple_macos(hosts[i]))
     IN \E rc \in {0, 1} :
          /\ system = "Darwin" \/ rc = 0
          /\ IF system = "Darwin" /\ rc # 0
             THEN /\ Die(Entry(xcrun, rc), 1)
                  /\ UNCHANGED args
             ELSE /\ log' = IF system = "Darwin"
                            THEN Append(log, Entry(xcrun, 0)) ELSE log
                  /\ todo' = <<>>
                  /\ IF bad
                     THEN /\ pc' = "exited"
                          /\ exit_status' = 1
                          /\ args' = [args EXCEPT
                               !.sysroot = IF system = "Darwin" THEN SdkPath
                                           ELSE None]
                     ELSE /\ pc' = "handle_invocation"
                          /\ exit_status' = exit_status
                          /\ args' = [args EXCEPT
                               !.sysroot = IF system = "Darwin" THEN SdkPath
                                           ELSE None,
                               !.install_prefixes =
                                 IF args.install_prefixes = <<>>
                                 THEN <<args.toolchain>>
                                 ELSE args.install_prefixes]
  /\ UNCHANGED <<history, system, targets, files, env, absent, linked>>

\* get_build_target: the swiftc query (lines 551-560)
get_build_target_cmd(swiftc_path) ==
  Cmd("swiftc", None, <<>>, None, <<F("-print-target-info", None)>>, <<>>)

\* resolve_targets appending the deployment target on every system
resolve_targets_versioned(a, host) ==
  IF a.cross_compile_hosts # <<>> THEN a.cross_compile_hosts
  ELSE <<host \o macos_deployment_target>>

\* lines 159-165, given the answer of the compiler when it is asked
resolve_targets(a, host) ==
  IF a.cross_compile_hosts # <<>> THEN a.cross_compile_hosts
  ELSE IF a.system = "Darwin" THEN <<host \o macos_deployment_target>>
  ELSE <<host>>

\* lines 167-176 and, for the test action, 185-196
handle_invocation_env(a, fs) ==
  LET toolchain_bin == join(a.toolchain, S("bin"))
      E(n, v) == [name |-> n, val |-> v]
  IN (IF ~a.no_local_deps THEN {E(S("SWIFTCI_USE_LOCAL_DEPS"), <<S("1")>>)}
      ELSE {})
     \cup (IF a.ninja_bin # None THEN {E(S("NINJA_BIN"), a.ninja_bin)} ELSE {})
     \cup (IF a.sysroot # None THEN {E(S("SDKROOT"), a.sysroot)} ELSE {})
     \cup (IF a.action = "test"
           THEN {E(S("SWIFT_DRIVER_") \o tool_env_name(driver_toolchain_tools[i])
                     \o S("_EXEC"),
                   join(toolchain_bin, S(driver_toolchain_tools[i]))) :
                   i \in {j \in 1..Len(driver_toolchain_tools) :
                            exists(fs, join(toolchain_bin,
                                            S(driver_toolchain_tools[j])))}}
                \cup {E(S("SWIFT_EXEC"), join(toolchain_bin, S("swiftc"))),
                      E(S("SWIFT_DRIVER_ENABLE_INTEGRATION_TESTS"), <<S("1")>>)}
                \cup (IF a.lit_test_dir # None
                      THEN {E(S("SWIFT_DRIVER_LIT_DIR"), a.lit_test_dir)}
                      ELSE {})
           ELSE {})

\* the per-target files the merge commands of the run read
LipoInputs(calls) ==
  UNION {Range(calls[i].ins) : i \in {j \in 1..Len(calls) :
                                        calls[j].tool = "lipo"}}

\* lines 153-207: resolve the targets, set the environment, dispatch
handle_invocation ==
  /\ pc = "handle_invocation"
  /\ LET swiftc_exec == args.toolchain \o <<S("bin"), S("swiftc")>>
         query == get_build_target_cmd(swiftc_exec)
         asked == args.cross_compile_hosts = <<>>
     IN \E rc \in {0, 1} :
          /\ asked \/ rc = 0
          /\ IF rc # 0
             THEN /\ Die(Entry(query, rc), 1)
                  /\ UNCHANGED <<targets, env, absent, linked>>
             ELSE LET tgts == resolve_targets(args, HostTriple(system))
                      calls == handle_invocation_calls(args, tgts)
                  IN /\ targets' = tgts
                     /\ env' = handle_invocation_env(args, files)
                     /\ todo' = calls
                     /\ log' = IF asked THEN Append(log, Entry(query, 0))
                               ELSE log
                     /\ pc' = "run"
                     /\ exit_status' = exit_status
                     /\ IF history # <<>>
                        THEN UNCHANGED <<absent, linked>>
                        ELSE /\ absent' \in {{}} \cup {{f} : f \in LipoInputs(calls)}
                             /\ IF LipoInputs(calls) = {}
                                THEN linked' = {}
                                ELSE linked' \in LinkedDepChoices
  /\ UNCHANGED <<history, system, args, files>>

run_mkdir_p ==
  /\ Running("mkdir_p")
  /\ Advance(Entry(Head(todo), 0))
  /\ UNCHANGED <<history, system, args, targets, files, env, absent, linked>>

\* subprocess.check_call(['touch', ...]) (line 433)
run_touch ==
  /\ Running("touch")
  /\ LET c == Head(todo)
     IN \E rc \in {0, 1} :
          IF rc = 0
          THEN /\ Advance(Entry(c, 0))
               /\ files' = IF exists(files, c.out) THEN files
                           ELSE WriteFile(files, c.out, {})
          ELSE /\ Die(Entry(c, rc), 1)
               /\ UNCHANGED files
  /\ UNCHANGED <<history, system, args, targets, env, absent, linked>>

\* subprocess.check_output(cmd, cwd=build_dir) (line 527)
run_cmake ==
  /\ Running("cmake")
  /\ \E rc \in {0, 1} :
       IF rc = 0 THEN Advance(Entry(Head(todo), 0))
       ELSE Die(Entry(Head(todo), rc), 1)
  /\ UNCHANGED <<history, system, args, targets, files, env, absent, linked>>

\* run_ninja without the returncode test of line 543
run_ninja_unchecked ==
  /\ Running("ninja")
  /\ LET c == Head(todo)
     IN \E rc \in ExitCodes :
          /\ Advance(Entry(c, rc))
          /\ files' = IF rc = 0
                      THEN NinjaEffect(files, args, c.cwd, linked, absent)
                      ELSE files
  /\ UNCHANGED <<history, system, args, targets, env, absent, linked>>

\* lines 538-547: a failing ninja ends the run with ninja's exit status
run_ninja ==
  /\ Running("ninja")
  /\ LET c == Head(todo)
     IN \E rc \in ExitCodes :
          IF rc = 0
          THEN /\ Advance(Entry(c, 0))
               /\ files' = NinjaEffect(files, args, c.cwd, linked, absent)
          ELSE /\ Die(Entry(c, rc), rc)
               /\ UNCHANGED files
  /\ UNCHANGED <<history, system, args, targets, env, absent, linked>>

\* delete_rpath / add_rpath run through subprocess.check_call
run_install_name_tool_checked ==
  /\ Running("install_name_tool")
  /\ LET c == Head(todo)
         rc == InstallNameToolExit(files, c)
     IN IF rc = 0
        THEN /\ Advance(Entry(c, 0))
             /\ files' = InstallNameToolEffect(files, c)
        ELSE /\ Die(Entry(c, rc), 1)
             /\ UNCHANGED files
  /\ UNCHANGED <<history, system, args, targets, env, absent, linked>>

\* add_rpath run through subprocess.check_call, delete_rpath as it is
run_install_name_tool_add_checked ==
  /\ Running("install_name_tool")
  /\ LET c == Head(todo)
         rc == InstallNameToolExit(files, c)
     IN IF rc = 0 \/ c.flags[1].name = "-delete_rpath"
        THEN /\ Advance(Entry(c, rc))
             /\ files' = InstallNameToolEffect(files, c)
        ELSE /\ Die(Entry(c, rc), 1)
             /\ UNCHANGED files
  /\ UNCHANGED <<history, system, args, targets, env, absent, linked>>

\* delete_rpath / add_rpath (lines 119-143): the exit code is only printed
run_install_name_tool ==
  /\ Running("install_name_tool")
  /\ LET c == Head(todo)
     IN /\ Advance(Entry(c, InstallNameToolExit(files, c)))
        /\ files' = InstallNameToolEffect(files, c)
  /\ UNCHANGED <<history, system, args, targets, env, absent, linked>>

\* lipo run through subprocess.call: the exit code is dropped
run_lipo_unchecked ==
  /\ Running("lipo")
  /\ LET c == Head(todo)
     IN \E rc \in {0, 1} :
          /\ LipoInputsExist(files, c) \/ rc # 0
          /\ Advance(Entry(c, rc))
          /\ files' = IF rc = 0 THEN LipoEffect(files, c) ELSE files
  /\ UNCHANGED <<history, system, args, targets, env, absent, linked>>

\* subprocess.check_call(lipo_cmd) (lines 279, 340)
run_lipo ==
  /\ Running("lipo")
  /\ LET c == Head(todo)
     IN \E rc \in {0, 1} :
          /\ LipoInputsExist(files, c) \/ rc # 0
          /\ IF rc = 0
             THEN /\ Advance(Entry(c, 0))
                  /\ files' = LipoEffect(files, c)
             ELSE /\ Die(Entry(c, rc), 1)
                  /\ UNCHANGED files
  /\ UNCHANGED <<history, system, args, targets, env, absent, linked>>

\* install_binary run through subprocess.call: the exit code is dropped
run_rsync_unchecked ==
  /\ Running("rsync")
  /\ LET c == Head(todo)
     IN \E rc \in {0, 1} :
          /\ exists(files, c.ins[1]) \/ rc # 0
          /\ Advance(Entry(c, rc))
          /\ files' = IF rc = 0 THEN RsyncEffect(files, c) ELSE files
  /\ UNCHANGED <<history, system, args, targets, env, absent, linked>>

\* install_binary: subprocess.check_call(['rsync', '-a', ...]) (line 117)
run_rsync ==
  /\ Running("rsync")
  /\ LET c == Head(todo)
     IN \E rc \in {0, 1} :
          /\ exists(files, c.ins[1]) \/ rc # 0
          /\ IF rc = 0
             THEN /\ Advance(Entry(c, 0))
                  /\ files' = RsyncEffect(files, c)
             ELSE /\ Die(Entry(c, rc), 1)
                  /\ UNCHANGED files
  /\ UNCHANGED <<history, system, args, targets, env, absent, linked>>

\* os.rename (line 380): raises when the source is missing
run_rename ==
  /\ Running("os.rename")
  /\ LET c == Head(todo)
     IN IF exists(files, c.ins[1])
        THEN /\ Advance(Entry(c, 0))
             /\ files' = RenameEffect(files, c)
        ELSE /\ Die(Entry(c, 1), 1)
             /\ UNCHANGED files
  /\ UNCHANGED <<history, system, args, targets, env, absent, linked>>

\* shutil.rmtree without ignore_errors: a removal that fails raises
run_rmtree_checked ==
  /\ Running("shutil.rmtree")
  /\ LET c == Head(todo)
     IN \E rc \in {0, 1} :
          /\ Under(files, c.out) # {} \/ rc = 0
          /\ IF rc = 0
             THEN /\ Advance(Entry(c, 0))
                  /\ files' = RmtreeEffect(files, c)
             ELSE /\ Die(Entry(c, rc), 1)
                  /\ UNCHANGED files
  /\ UNCHANGED <<history, system, args, targets, env, absent, linked>>

\* shutil.rmtree(path, ignore_errors=True) (lines 183, 387): a removal that
\* fails is ignored and leaves the tree
run_rmtree ==
  /\ Running("shutil.rmtree")
  /\ LET c == Head(todo)
     IN \E rc \in {0, 1} :
          /\ Under(files, c.out) # {} \/ rc = 0
          /\ Advance(Entry(c, rc))
          /\ files' = IF rc = 0 THEN RmtreeEffect(files, c) ELSE files
  /\ UNCHANGED <<history, system, args, targets, env, absent, linked>>

\* shutil.copytree (line 388): raises when the destination exists or the
\* source is missing, or when a copy fails
run_copytree ==
  /\ Running("shutil.copytree")
  /\ LET c == Head(todo)
     IN \E rc \in {0, 1} :
          /\ (Under(files, c.out) = {} /\ Under(files, c.ins[1]) # {})
             \/ rc # 0
          /\ IF rc = 0
             THEN /\ Advance(Entry(c, 0))
                  /\ files' = CopytreeEffect(files, c)
             ELSE /\ Die(Entry(c, rc), 1)
                  /\ UNCHANGED files
  /\ UNCHANGED <<history, system, args, targets, env, absent, linked>>

\* swiftpm / swiftpm_bin_path (lines 60-69): check_call / check_output
run_swift ==
  /\ Running("swift")
  /\ LET c == Head(todo)
     IN \E rc \in {0, 1} :
          IF rc = 0
          THEN /\ Advance(Entry(c, 0))
               /\ files' = IF c.flags[1].name = "build" /\ Len(c.flags) > 1
                              /\ c.flags[2].name # "--show-bin-path"
                           THEN SwiftBuildEffect(files, args)
                           ELSE files
          ELSE /\ Die(Entry(c, rc), 1)
               /\ UNCHANGED files
  /\ UNCHANGED <<history, system, args, targets, env, absent, linked>>

\* handle_invocation returns and the interpreter exits with status 0
finish ==
  /\ pc = "run"
  /\ todo = <<>>
  /\ pc' = "exited"
  /\ exit_status' = 0
  /\ UNCHANGED <<history, system, args, targets, todo, log, files, env, absent, linked>>

Next ==
  \/ main
  \/ handle_invocation
  \/ run_mkdir_p
  \/ run_touch
  \/ run_cmake
  \/ run_ninja
  \/ run_install_name_tool
  \/ run_lipo
  \/ run_rsync
  \/ run_rename
  \/ run_rmtree
  \/ run_copytree
  \/ run_swift
  \/ finish

Spec == Init /\ [][Next]_vars

\* The same command line is given again after the script has exited, over the
\* files the first invocation left: with the same --cross-compile-hosts, or
\* with none, so that the host triple becomes a further target.  The build
\* descriptions are the same, so that ninja links and produces as before
\* (linked, absent).  Only an install on Darwin whose build descriptions
\* produce every file is given again; history keeps what the first
\* invocation left.
rerun ==
  /\ pc = "exited"
  /\ history = <<>>
  /\ system = "Darwin"
  /\ args.action = "install"
  /\ linked # {}
  /\ absent = {}
  /\ history' = <<[files |-> files, exit_status |-> exit_status,
                   targets |-> targets]>>
  /\ \E hosts \in {args.cross_compile_hosts, <<>>} :
       args' = [args EXCEPT !.cross_compile_hosts = hosts, !.sysroot = None]
  /\ pc' = "main"
  /\ log' = <<>>
  /\ todo' = <<>>
  /\ targets' = <<>>
  /\ env' = {}
  /\ exit_status' = 0
  /\ UNCHANGED <<system, files, absent, linked>>

\* command lines with --configuration release and one --prefix
InitRerun ==
  /\ Init
  /\ args.configuration = "release"
  /\ args.install_prefixes = <<PrefixName(1)>>

NextRerun ==
  \/ Next
  \/ rerun

SpecRerun == InitRerun /\ [][NextRerun]_vars

\* --prefix <build-path>/install: an install prefix inside the build-output
\* root; neither path is checked against the other
NestedPrefix == join(BuildPath, S("install"))

\* command lines with --configuration release and one --prefix, outside the
\* build-output root or inside it
InitClean ==
  /\ args \in {[a EXCEPT !.install_prefixes = <<pfx>>] :
                 a \in {b \in ArgsSet : /\ b.configuration = "release"
                                        /\ b.install_prefixes = <<>>},
                 pfx \in {PrefixName(1), NestedPrefix}}
  /\ system = args.system
  /\ targets = <<>>
  /\ todo = <<>>
  /\ log = <<>>
  /\ files = InitialFiles
  /\ env = {}
  /\ pc = "main"
  /\ exit_status = 0
  /\ absent = {}
  /\ linked = {}
  /\ history = <<>>

\* The script is invoked again with the clean subcommand and otherwise the
\* same command line, after the first invocation has exited, over the files
\* it left; history keeps what the first invocation left.
clean_after ==
  /\ pc = "exited"
  /\ history = <<>>
  /\ history' = <<[files |-> files, exit_status |-> exit_status,
                   targets |-> targets]>>
  /\ args' = [args EXCEPT !.action = "clean", !.sysroot = None]
  /\ pc' = "main"
  /\ log' = <<>>
  /\ todo' = <<>>
  /\ targets' = <<>>
  /\ env' = {}
  /\ exit_status' = 0
  /\ UNCHANGED <<system, files, absent, linked>>

NextClean ==
  \/ Next
  \/ clean_after

SpecClean == InitClean /\ [][NextClean]_vars

-----------------------------------------------------------------------------
(* Reading the log *)

Tool(i) == log[i].cmd.tool

IsBuildStep(e) == e.cmd.tool \in {"cmake", "ninja"}

BuildSteps == SelectSeq(log, IsBuildStep)

ChainOrder ==
  <<S("llbuild"), S("swift-tools-support-core"), S("swift-argument-parser"),
    S("yams"), S("swift-driver")>>

\* the build directory of package pkg for target t
ChainDir(t, pkg) ==
  IF pkg = S("swift-driver") THEN BuildPath \o <<t, S(args.configuration)>>
  ELSE BuildPath \o <<t, S(args.configuration), S("dependencies"), pkg>>

\* the source directory of package pkg
ChainSource(pkg) == join(dirname(PackagePath), pkg)

UsesCmake ==
  args.action = "build" \/ (args.action = "install" /\ system = "Darwin")

Succeeded == pc = "exited" /\ exit_status = 0

\* the j-th configure/build step is the step of the chain at that position:
\* ten steps per target, two per package, configure first
ChainStepAt(bs, j) ==
  LET t == ((j - 1) \div 10) + 1
      k == (((j - 1) % 10) \div 2) + 1
  IN /\ t <= Len(targets)
     /\ bs[j].cmd.tool = (IF j % 2 = 1 THEN "cmake" ELSE "ninja")
     /\ bs[j].cmd.cwd = ChainDir(targets[t], ChainOrder[k])
     /\ j % 2 = 1 => bs[j].cmd.ins = <<ChainSource(ChainOrder[k])>>

\* C1: for every target, in list order, the five packages are built exactly
\* once each in the order llbuild, swift-tools-support-core,
\* swift-argument-parser, Yams, swift-driver; the configure step of a package
\* is immediately followed by the native build step of the same package; all
\* five packages of a target are done before the next target starts.
Thm_C1_ChainOrder ==
  LET bs == BuildSteps
  IN /\ \A j \in 1..Len(bs) : ChainStepAt(bs, j)
     /\ \A i \in 1..(Len(log) - 1) :
          Tool(i) = "cmake" =>
            /\ Tool(i + 1) = "ninja"
            /\ log[i + 1].cmd.cwd = log[i].cmd.cwd
     /\ (Succeeded /\ UsesCmake) => Len(bs) = 10 * Len(targets)

Wit_C1_TwoTargetsBuilt ==
  /\ Succeeded
  /\ args.action = "build"
  /\ Len(targets) = 2
  /\ Len(BuildSteps) = 20

\* C2: a failing configure or native build step is the last step of the run:
\* the run has ended with a nonzero exit status and nothing is left to run.
Thm_C2_BuildFailureAborts ==
  \A i \in 1..Len(log) :
    (IsBuildStep(log[i]) /\ log[i].rc # 0) =>
      /\ i = Len(log)
      /\ pc = "exited"
      /\ exit_status # 0
      /\ todo = <<>>

Wit_C2_NinjaFailedMidway ==
  /\ pc = "exited"
  /\ log # <<>>
  /\ log[Len(log)].cmd.tool = "ninja"
  /\ log[Len(log)].rc = 2
  /\ exit_status = 2
  /\ Len(BuildSteps) = 14
  /\ args.action = "install"

\* C3: a nonzero exit of install_name_tool (delete_rpath or add_rpath) never
\* ends the run: after every such step the run is still going and the step
\* that follows in the pipeline is there to be executed, and is executed next.
Thm_C3_RpathBestEffort ==
  \A i \in 1..Len(log) :
    Tool(i) = "install_name_tool" =>
      IF i = Len(log)
      THEN pc = "run" /\ todo # <<>>
      ELSE Tool(i + 1) \in {"install_name_tool", "lipo"}

\* both tools have failed and both have succeeded, and the run went through
Wit_C3_FailedRpathSteps ==
  /\ Succeeded
  /\ \A n \in {"-delete_rpath", "-add_rpath"} : \A r \in {0, 1} :
       \E i \in 1..Len(log) :
         /\ Tool(i) = "install_name_tool"
         /\ log[i].cmd.flags[1].name = n
         /\ log[i].rc = r

-----------------------------------------------------------------------------
(* Merging *)

Last == log[Len(log)]

LastIs(tool) == log # <<>> /\ Last.cmd.tool = tool

DarwinInstall == system = "Darwin" /\ args.action = "install"

UniversalDir == universal_dir_of(BuildPath)

DeclaredExecutables ==
  {join(join(UniversalDir, S("bin")), ExecutableNames[i]) : i \in 1..2}

DeclaredLibraryNames ==
  {S("libSwiftDriver"), S("libSwiftOptions"), S("libSwiftDriverExecution"),
   S("libTSCBasic"), S("libTSCLibc"), S("libTSCUtility"),
   S("libArgumentParser"), S("libllbuildSwift"), S("libllbuild")}

\* the libraries no rpath step of install_libraries names
UnfixedLibraryNames ==
  {S("libArgumentParser"), S("libllbuildSwift"), S("libllbuild")}

LibraryFile(n) == join(join(UniversalDir, S("lib")), n \o shared_lib_ext(system))

DeclaredLibraries == {LibraryFile(n) : n \in DeclaredLibraryNames}

UnfixedLibraries == {LibraryFile(n) : n \in UnfixedLibraryNames}

IsRpathStep(e, name, binary) ==
  /\ e.cmd.tool = "install_name_tool"
  /\ e.cmd.flags[1].name = name
  /\ e.cmd.ins = <<binary>>

\* before step i a build-tree search path of the target of binary was
\* removed from binary
DeletedBefore(i, binary) ==
  \E j \in 1..(i - 1) :
    /\ IsRpathStep(log[j], "-delete_rpath", binary)
    /\ IsPrefix(SubSeq(binary, 1, Len(BuildPath) + 1), log[j].cmd.flags[1].val)

TouchedByRpathStep(binary) ==
  \E j \in 1..Len(log) :
    log[j].cmd.tool = "install_name_tool" /\ log[j].cmd.ins = <<binary>>

\* the universal directory holds exactly the declared executables and
\* libraries, each one file with one slice per target
OneUniversalFilePerArtifact ==
  /\ Under(files, UniversalDir) = DeclaredExecutables \cup DeclaredLibraries
  /\ \A f \in Under(files, UniversalDir) :
       {sl.target : sl \in files[f]} = Range(targets)

\* C4 as stated: with two explicit targets every merge runs after the whole
\* chain of both targets, every per-target input of every merge (executables
\* and all shared libraries) has had a build-tree search path removed before
\* the merge, and a finished run leaves one universal file per artifact.
Orig_C4_AllInputsStripped ==
  (DarwinInstall /\ Len(args.cross_compile_hosts) = 2) =>
    /\ LastIs("lipo") =>
         /\ Len(BuildSteps) = 20
         /\ \A k \in 1..Len(Last.cmd.ins) :
              DeletedBefore(Len(log), Last.cmd.ins[k])
    /\ Succeeded => OneUniversalFilePerArtifact

\* C4 amended: the same, but the removal precedes the merge for the
\* executables and the driver and TSC libraries only; the inputs of
\* libArgumentParser, libllbuildSwift and libllbuild are merged without any
\* rpath step ever naming them.
Thm_C4_FixedInputsStripped ==
  (DarwinInstall /\ Len(args.cross_compile_hosts) = 2) =>
    /\ LastIs("lipo") =>
         /\ Len(BuildSteps) = 20
         /\ \A k \in 1..Len(Last.cmd.ins) :
              IF Last.cmd.out \in UnfixedLibraries
              THEN ~TouchedByRpathStep(Last.cmd.ins[k])
              ELSE DeletedBefore(Len(log), Last.cmd.ins[k])
    /\ Succeeded => OneUniversalFilePerArtifact

Wit_C4_TwoTargetsInstalled ==
  /\ Succeeded
  /\ DarwinInstall
  /\ Len(args.cross_compile_hosts) = 2
  /\ OneUniversalFilePerArtifact
  /\ \E i \in 1..Len(log) :
       Tool(i) = "lipo" /\ log[i].cmd.out \in UnfixedLibraries

LipoStepsTo(out) ==
  Cardinality({i \in 1..Len(log) : Tool(i) = "lipo" /\ log[i].cmd.out = out})

\* C6: a merge that succeeded was one lipo command over exactly the
\* per-target files of the artifact, one per target in list order, all
\* existing; it left one file in the universal directory that holds the
\* slices of all inputs and, with one target, is the same as its input.  The
\* universal directory holds nothing but the outputs of the merges.  A
\* finished install has merged every artifact once per prefix, with one
\* target as with several.
Thm_C6_MergeOneOutput ==
  /\ (LastIs("lipo") /\ Last.rc = 0) =>
       LET c == Last.cmd
       IN /\ Len(c.ins) = Len(targets)
          /\ \A k \in 1..Len(c.ins) :
               /\ IsPrefix(join(BuildPath, targets[k]), c.ins[k])
               /\ basename(c.ins[k]) = basename(c.out)
               /\ exists(files, c.ins[k])
          /\ c.out \in DeclaredExecutables \cup DeclaredLibraries
          /\ exists(files, c.out)
          /\ files[c.out] = UNION {files[c.ins[k]] : k \in 1..Len(c.ins)}
          /\ Len(targets) = 1 => files[c.out] = files[c.ins[1]]
          /\ Under(files, UniversalDir) =
               {log[i].cmd.out : i \in {j \in 1..Len(log) :
                                          Tool(j) = "lipo" /\ log[j].rc = 0}}
  /\ (Succeeded /\ DarwinInstall) =>
       \A f \in DeclaredExecutables \cup DeclaredLibraries :
         LipoStepsTo(f) = Len(args.install_prefixes)

Wit_C6_SingleTargetMerge ==
  /\ LastIs("lipo")
  /\ Last.rc = 0
  /\ Len(targets) = 1
  /\ Last.cmd.out \in DeclaredLibraries
  /\ files[Last.cmd.out] = files[Last.cmd.ins[1]]

\* C7: a merge with a missing per-target input fails and is the last step of
\* the run, which ends with a nonzero status; its universal file does not
\* exist and no file of that name exists outside the build tree of the
\* targets (nothing was installed for it).  A failed merge is never followed
\* by another step.
Thm_C7_MissingInputAborts ==
  /\ (LastIs("lipo") /\ ~LipoInputsExist(files, Last.cmd)) =>
       /\ Last.rc # 0
       /\ pc = "exited"
       /\ exit_status # 0
       /\ todo = <<>>
       /\ ~exists(files, Last.cmd.out)
       /\ \A q \in DOMAIN files :
            basename(q) = basename(Last.cmd.out) =>
              \E k \in 1..Len(targets) : IsPrefix(join(BuildPath, targets[k]), q)
  /\ \A i \in 1..(Len(log) - 1) : Tool(i) = "lipo" => log[i].rc = 0

Wit_C7_OneInputMissing ==
  /\ LastIs("lipo")
  /\ pc = "exited"
  /\ Len(targets) = 2
  /\ exists(files, Last.cmd.ins[1])
  /\ ~exists(files, Last.cmd.ins[2])
  /\ \E i \in 1..Len(log) : Tool(i) = "rsync"

-----------------------------------------------------------------------------
(* The non-Darwin host *)

LinuxHostRun == system = "Linux" /\ args.cross_compile_hosts = <<>>

NoStep(tools) == \A i \in 1..Len(log) : Tool(i) \notin tools

ChainOnceInOrder ==
  /\ Len(BuildSteps) = 10
  /\ \A j \in 1..10 : ChainStepAt(BuildSteps, j)
  /\ \A i \in 1..(Len(log) - 1) : Tool(i) = "cmake" => Tool(i + 1) = "ninja"

\* C5 as stated: on the Linux host without cross targets a finished run that
\* builds the package (build or install) has invoked the chain once in order
\* and ends by merging the executable and copying it to <toolchain>/bin.
Orig_C5_LinuxChainThenCopy ==
  (LinuxHostRun /\ Succeeded /\ args.action \in {"build", "install"}) =>
    /\ ChainOnceInOrder
    /\ \E i \in 1..Len(log) : Tool(i) = "lipo"
    /\ LastIs("rsync")
    /\ Last.cmd.out = ToolchainBin
    /\ exists(files, join(ToolchainBin, S("swift-driver")))

\* C5 amended: on that host the build action invokes the chain once in order
\* (configure then ninja per package) for the host triple and ends there,
\* with no merge and no copy; the install action invokes no configure, ninja
\* or merge step: it asks SwiftPM for the bin path, runs swift build and ends
\* by copying swift-driver and swift-help from there to <toolchain>/bin.
Thm_C5_LinuxBuildAndInstall ==
  (LinuxHostRun /\ Succeeded) =>
    /\ targets = <<S("x86_64-unknown-linux-gnu")>>
    /\ args.action = "build" =>
         /\ ChainOnceInOrder
         /\ NoStep({"lipo", "rsync", "install_name_tool", "swift"})
         /\ LastIs("ninja")
    /\ args.action = "install" =>
         /\ NoStep({"cmake", "ninja", "lipo", "install_name_tool"})
         /\ Len(log) = 5
         /\ Tool(2) = "swift" /\ log[2].cmd.flags[2].name = "--show-bin-path"
         /\ Tool(3) = "swift" /\ log[3].cmd.flags[1].name = "build"
         /\ \A k \in 1..2 :
              /\ Tool(3 + k) = "rsync"
              /\ log[3 + k].cmd.ins =
                   <<join(SwiftpmBinPath(args), ExecutableNames[k])>>
              /\ log[3 + k].cmd.out = ToolchainBin
              /\ exists(files, join(ToolchainBin, ExecutableNames[k]))

Wit_C5_LinuxBuildDone ==
  /\ LinuxHostRun
  /\ Succeeded
  /\ args.action = "build"
  /\ ChainOnceInOrder
  /\ ~exists(files, join(ToolchainBin, S("swift-driver")))

-----------------------------------------------------------------------------
(* The rpath fix-up of the executables *)

IsExeBinary(b) == IsPrefix(BuildPath, b) /\ b[Len(b) - 1] = S("bin")

OnBinary(e, b) == e.cmd.tool = "install_name_tool" /\ e.cmd.ins = <<b>>

\* C8: in the fix-up of an executable for a target, every step before the
\* add is a delete of a build-tree path on the same binary, the add comes
\* last, there is one add per pass and it adds the install-relative path
\* @executable_path/../lib/swift/macosx.
Thm_C8_DeletesThenOneAdd ==
  \A i \in 1..Len(log) :
    (Tool(i) = "install_name_tool" /\ IsExeBinary(log[i].cmd.ins[1])) =>
      LET b == log[i].cmd.ins[1]
          flag == log[i].cmd.flags[1]
      IN IF flag.name = "-add_rpath"
         THEN /\ flag.val = InstallRpath
              /\ i > 1
              /\ IsRpathStep(log[i - 1], "-delete_rpath", b)
              /\ i < Len(log) => ~OnBinary(log[i + 1], b)
         ELSE /\ flag.name = "-delete_rpath"
              /\ IsPrefix(BuildPath, flag.val)
              /\ i < Len(log) => OnBinary(log[i + 1], b)

Wit_C8_PassDone ==
  /\ LastIs("install_name_tool")
  /\ Len(log) > 4
  /\ IsExeBinary(Last.cmd.ins[1])
  /\ Last.cmd.flags[1].name = "-add_rpath"
  /\ Last.rc = 0
  /\ \A k \in 1..3 :
       IsRpathStep(log[Len(log) - k], "-delete_rpath", Last.cmd.ins[1])

\* the fix-up pass of an executable has just ended
PassEnded ==
  /\ LastIs("install_name_tool")
  /\ IsExeBinary(Last.cmd.ins[1])
  /\ Last.cmd.flags[1].name = "-add_rpath"

\* the paths the deletes of the pass that just ended named
DeletedInPass ==
  LET b == Last.cmd.ins[1]
  IN {log[k].cmd.flags[1].val :
        k \in {j \in 1..(Len(log) - 1) :
                 \A m \in j..(Len(log) - 1) :
                   IsRpathStep(log[m], "-delete_rpath", b)}}

OwnLibDir(b) == join(dirname(dirname(b)), S("lib"))

DepLibDir(b, dep) == dirname(dirname(b)) \o <<S("dependencies"), dep, S("lib")>>

RpathsOf(b) == UNION {sl.rpaths : sl \in files[b]}

\* C9 as stated: the pass deletes the executable's own lib directory and the
\* lib directory of each of the four dependency packages, and leaves no
\* build-tree directory among the search paths of the executable.
Orig_C9_DeletesAllDeps ==
  PassEnded =>
    LET b == Last.cmd.ins[1]
    IN /\ DeletedInPass =
            {OwnLibDir(b)}
            \cup {DepLibDir(b, ChainOrder[k]) : k \in 1..4}
       /\ exists(files, b) =>
            \A r \in RpathsOf(b) : ~IsPrefix(BuildPath, r)

\* C9 amended: the pass deletes the executable's own lib directory and the
\* lib directories of swift-tools-support-core and swift-argument-parser
\* only (not llbuild, not Yams); after the pass none of these three is among
\* the search paths of the executable.
Thm_C9_DeletesOwnTscParser ==
  PassEnded =>
    LET b == Last.cmd.ins[1]
        deleted == {OwnLibDir(b), DepLibDir(b, S("swift-tools-support-core")),
                    DepLibDir(b, S("swift-argument-parser"))}
    IN /\ DeletedInPass = deleted
       /\ exists(files, b) => RpathsOf(b) \cap deleted = {}

\* a pass has ended and the lib directory of llbuild is still a search path
Wit_C9_LlbuildDirLeft ==
  /\ PassEnded
  /\ exists(files, Last.cmd.ins[1])
  /\ DepLibDir(Last.cmd.ins[1], S("llbuild")) \in RpathsOf(Last.cmd.ins[1])
  /\ InstallRpath \in RpathsOf(Last.cmd.ins[1])

-----------------------------------------------------------------------------
(* Location hints *)

TargetOfDir(dir) == dir[Len(BuildPath) + 1]

ChainIndex(pkg) == CHOOSE k \in 1..5 : ChainOrder[k] = pkg

HintDir(t, dep) == join(ChainDir(t, dep), S("cmake/modules"))

HintTo(c, t, dep) == \E k \in 1..Len(c.flags) : c.flags[k].val = HintDir(t, dep)

\* the values of the flags of a configure command that point into the build
\* tree
BuildTreeHints(c) ==
  {c.flags[k].val : k \in {j \in 1..Len(c.flags) :
                            IsPrefix(BuildPath, c.flags[j].val)}}

BuiltBefore(t, dep) ==
  \E j \in 1..(Len(log) - 1) :
    Tool(j) = "ninja" /\ log[j].rc = 0 /\ log[j].cmd.cwd = ChainDir(t, dep)

\* C10 as stated: the configure command of every package after the first
\* carries a hint to each package built earlier for the same target, and all
\* earlier packages have been built for that target.
Orig_C10_HintsToAllEarlier ==
  LastIs("cmake") =>
    LET c == Last.cmd
        t == TargetOfDir(c.cwd)
        k == ChainIndex(basename(c.ins[1]))
    IN \A j \in 1..(k - 1) :
         /\ HintTo(c, t, ChainOrder[j])
         /\ BuiltBefore(t, ChainOrder[j])

\* C10 amended: only the configure command of swift-driver carries location
\* hints: one to each of the four packages built earlier for the same
\* target, all under that target's build directory; the configure commands
\* of the other packages carry no hint into the build tree.  No package is
\* configured before every earlier package of the chain has been built for
\* that target.
Thm_C10_DriverHintsOnly ==
  LastIs("cmake") =>
    LET c == Last.cmd
        t == TargetOfDir(c.cwd)
        k == ChainIndex(basename(c.ins[1]))
    IN /\ \A j \in 1..(k - 1) : BuiltBefore(t, ChainOrder[j])
       /\ IF k = 5
          THEN BuildTreeHints(c) = {HintDir(t, ChainOrder[j]) : j \in 1..4}
          ELSE BuildTreeHints(c) = {}

Wit_C10_SecondTargetDriver ==
  /\ LastIs("cmake")
  /\ Len(targets) = 2
  /\ Last.cmd.cwd = ChainDir(targets[2], S("swift-driver"))
  /\ HintTo(Last.cmd, targets[2], S("yams"))

-----------------------------------------------------------------------------
(* Installed module files *)

ModuleNames ==
  {S("SwiftDriver"), S("SwiftOptions"), S("TSCUtility"), S("TSCLibc"),
   S("TSCBasic"), S("ArgumentParser")}

InstallLib(prefix) == prefix \o <<S("lib"), S("swift"), S("macosx")>>

ModuleDir(prefix, m) == join(InstallLib(prefix), m \o S(".swiftmodule"))

ModuleFile(prefix, m, t, ext) == join(ModuleDir(prefix, m), t \o ext)

ModuleDirs ==
  {ModuleDir(args.install_prefixes[i], m) :
     i \in 1..Len(args.install_prefixes), m \in ModuleNames}

\* the module files of the targets ts in directory d
ModuleFilesOf(d, ts) == {join(d, t \o ModuleExts[k]) : t \in ts, k \in 1..2}

\* the module files the earlier invocation left in directory d
EarlierIn(d) == IF history = <<>> THEN {} ELSE Under(history[1].files, d)

FurtherTargets ==
  /\ history # <<>>
  /\ Range(targets) \cap Range(history[1].targets) = {}

\* step e of the log writes, renames or removes the file f
Touches(e, f) ==
  CASE e.cmd.tool = "os.rename" -> f \in {e.cmd.ins[1], e.cmd.out}
    [] e.cmd.tool = "rsync" -> f = join(e.cmd.out, basename(e.cmd.ins[1]))
    [] e.cmd.tool = "lipo" -> f = e.cmd.out
    [] e.cmd.tool \in {"shutil.rmtree", "shutil.copytree"} ->
         IsPrefix(e.cmd.out, f)
    [] OTHER -> FALSE

\* C11: a finished install leaves in every M.swiftmodule directory exactly
\* the files T.swiftmodule and T.swiftdoc of its targets T next to the files
\* an earlier install left there; an install for further targets keeps every
\* file the earlier one left, with its content, and no step of it renames,
\* removes or writes one of them.
Thm_C11_ModuleFilesAppendOnly ==
  /\ (DarwinInstall /\ Succeeded) =>
       \A d \in ModuleDirs :
         Under(files, d) = ModuleFilesOf(d, Range(targets)) \cup EarlierIn(d)
  /\ FurtherTargets =>
       \A d \in ModuleDirs :
         /\ \A f \in EarlierIn(d) :
              exists(files, f) /\ files[f] = history[1].files[f]
         /\ log # <<>> => \A f \in EarlierIn(d) : ~Touches(Last, f)

Wit_C11_ThirdTargetAdded ==
  /\ history # <<>>
  /\ history[1].exit_status = 0
  /\ history[1].targets = <<ArmMac, IntelMac>>
  /\ Succeeded
  /\ targets = <<HostTriple(system) \o macos_deployment_target>>
  /\ \A d \in ModuleDirs :
       /\ ModuleFilesOf(d, {ArmMac, IntelMac}) = EarlierIn(d)
       /\ Under(files, d) = ModuleFilesOf(d, Range(targets) \cup {ArmMac, IntelMac})

-----------------------------------------------------------------------------
(* Target resolution *)

BadCrossList ==
  \E i \in 1..Len(args.cross_compile_hosts) :
    args.cross_compile_hosts[i] \notin {ArmMac, IntelMac}

\* C12: when the cross-compile list has a target without apple-macos in it,
\* the run ends with exit status 1 in main, for every action: nothing but
\* the sysroot query has run, no step is pending and no file has changed.
Thm_C12_BadCrossListAborts ==
  BadCrossList =>
    /\ pc \in {"main", "exited"}
    /\ pc = "exited" => exit_status = 1
    /\ todo = <<>>
    /\ targets = <<>>
    /\ files = InitialFiles
    /\ \A i \in 1..Len(log) : Tool(i) = "xcrun"

Wit_C12_MixedListRejected ==
  /\ args.cross_compile_hosts = <<ArmMac, ArmLinux>>
  /\ args.action = "install"
  /\ pc = "exited"
  /\ exit_status = 1
  /\ log # <<>>
  /\ Last.rc = 0

Resolved == pc = "run" \/ (pc = "exited" /\ targets # <<>>)

QueryAt(i) == Tool(i) = "swiftc"

\* C13: without a cross-compile list the compiler is asked once and the
\* targets are the one triple it prints, with 10.15 appended on Darwin and
\* as it is elsewhere; with a list the targets are that list and the compiler
\* is not asked; a failed query is the last step of a run that ends with a
\* nonzero status, with no target resolved and no other step but the sysroot
\* query before it.
Thm_C13_TargetResolution ==
  /\ (Resolved /\ args.cross_compile_hosts = <<>>) =>
       /\ targets = <<IF system = "Darwin"
                      THEN <<"x86_64-apple-macosx", "10.15">>
                      ELSE <<"x86_64-unknown-linux-gnu">>>>
       /\ Cardinality({i \in 1..Len(log) : QueryAt(i)}) = 1
  /\ (Resolved /\ args.cross_compile_hosts # <<>>) =>
       targets = args.cross_compile_hosts
  /\ args.cross_compile_hosts # <<>> =>
       \A i \in 1..Len(log) : ~QueryAt(i)
  /\ \A i \in 1..Len(log) :
       (QueryAt(i) /\ log[i].rc # 0) =>
         /\ i = Len(log)
         /\ pc = "exited" /\ exit_status # 0
         /\ targets = <<>>
         /\ files = InitialFiles
         /\ \A j \in 1..(i - 1) : Tool(j) = "xcrun"

Wit_C13_HostTargetBuilt ==
  /\ system = "Linux"
  /\ args.cross_compile_hosts = <<>>
  /\ args.action = "build"
  /\ Succeeded
  /\ Len(targets) = 1
  /\ QueryAt(1)

-----------------------------------------------------------------------------
(* The include tree *)

IncludeDest(prefix) == prefix \o <<S("include"), S("swift"), S("TSCclibc")>>

\* the entries of the tree at dir, relative to dir, with their content
TreeOf(fs, dir) ==
  {<<SubSeq(q, Len(dir) + 1, Len(q)), fs[q]>> : q \in Under(fs, dir)}

CopiesTo(dest) ==
  {i \in 1..Len(log) : Tool(i) = "shutil.copytree" /\ log[i].cmd.out = dest}

\* C14: the include tree is copied once per prefix whatever the number of
\* targets; after the copy the destination holds exactly the entries of the
\* source tree, and a previous copy is in the way of the copy only when its
\* removal, the step before, failed.
Thm_C14_IncludeTreeReplaced ==
  /\ LastIs("shutil.copytree") =>
       /\ \E i \in 1..Len(args.install_prefixes) :
            Last.cmd.out = IncludeDest(args.install_prefixes[i])
       /\ Last.cmd.ins = <<TsccIncludeDir>>
       /\ Cardinality(CopiesTo(Last.cmd.out)) = 1
       /\ Last.rc = 0 =>
            TreeOf(files, Last.cmd.out) = TreeOf(files, TsccIncludeDir)
       /\ (Last.rc # 0 /\ Under(files, Last.cmd.out) # {}) =>
            /\ Len(log) > 1
            /\ log[Len(log) - 1].cmd.tool = "shutil.rmtree"
            /\ log[Len(log) - 1].cmd.out = Last.cmd.out
            /\ log[Len(log) - 1].rc # 0
  /\ (DarwinInstall /\ Succeeded) =>
       \A i \in 1..Len(args.install_prefixes) :
         /\ Cardinality(CopiesTo(IncludeDest(args.install_prefixes[i]))) = 1
         /\ TreeOf(files, IncludeDest(args.install_prefixes[i]))
              = TreeOf(files, TsccIncludeDir)

Wit_C14_StaleCopyReplaced ==
  /\ LastIs("shutil.copytree")
  /\ Last.rc = 0
  /\ Last.cmd.out = IncludeDest(PrefixName(1))
  /\ Len(targets) = 2
  /\ exists(InitialFiles, StaleHeader)
  /\ ~exists(files, StaleHeader)
  /\ exists(files, join(IncludeDest(PrefixName(1)), S("TSCclibc.h")))

-----------------------------------------------------------------------------
(* Copies into the prefixes *)

IsCopy(e) == e.cmd.tool \in {"rsync", "shutil.copytree"}

\* the file a successful rsync step wrote, or the file it was renamed to by
\* the step after it
CopiedFile(i) ==
  LET f == join(log[i].cmd.out, basename(log[i].cmd.ins[1]))
  IN IF i < Len(log) /\ Tool(i + 1) = "os.rename" /\ log[i + 1].rc = 0
        /\ log[i + 1].cmd.ins = <<f>>
     THEN log[i + 1].cmd.out
     ELSE f

\* C15: a copy into a prefix that fails is the last step of the run, the run
\* ends with a nonzero exit status and nothing is pending; every file copied
\* before it is still in its prefix.
Thm_C15_CopyFailureFatal ==
  /\ \A i \in 1..Len(log) :
       (IsCopy(log[i]) /\ log[i].rc # 0) => i = Len(log)
  /\ (log # <<>> /\ IsCopy(Last) /\ Last.rc # 0) =>
       /\ pc = "exited"
       /\ exit_status # 0
       /\ todo = <<>>
       /\ \A i \in 1..(Len(log) - 1) :
            (Tool(i) = "rsync" /\ log[i].rc = 0) =>
              exists(files, CopiedFile(i))

Wit_C15_SecondPrefixCopyFailed ==
  /\ DarwinInstall
  /\ Len(args.install_prefixes) = 2
  /\ LastIs("rsync")
  /\ Last.rc # 0
  /\ Last.cmd.out = InstallLib(args.install_prefixes[2])
  /\ exists(files, join(join(args.install_prefixes[1], S("bin")),
                        S("swift-driver")))
  /\ exists(files, join(join(args.install_prefixes[2], S("bin")),
                        S("swift-help")))
  /\ ~exists(files, join(InstallLib(args.install_prefixes[2]),
                         basename(Last.cmd.ins[1])))

-----------------------------------------------------------------------------
(* Repetitions of the installation *)

InstallTools ==
  {"install_name_tool", "lipo", "rsync", "os.rename", "shutil.rmtree",
   "shutil.copytree"}

\* the number of repetitions of install_swiftdriver begun so far: each begins
\* with mkdir_p(universal_dir)
Repetition ==
  Cardinality({i \in 1..Len(log) :
                 Tool(i) = "mkdir_p" /\ log[i].cmd.out = UniversalDir})

\* the file the step e of an install repetition changes
Target(e) ==
  CASE e.cmd.tool = "install_name_tool" -> e.cmd.ins[1]
    [] e.cmd.tool = "rsync" -> join(e.cmd.out, basename(e.cmd.ins[1]))
    [] OTHER -> e.cmd.out

InInstallStep == DarwinInstall /\ log # <<>> /\ Last.cmd.tool \in InstallTools

EarlierSame ==
  \E i \in 1..(Len(log) - 1) : log[i].cmd = Last.cmd

\* C16 as stated: with several prefixes, a step of the repetition for one
\* prefix that changes a file changes a file under that prefix, and no file
\* that a step of another repetition reads or changes.
Orig_C16_RepetitionsIndependent ==
  (InInstallStep /\ Len(args.install_prefixes) > 1 /\ Last.rc = 0) =>
    /\ IsPrefix(args.install_prefixes[Repetition], Target(Last))
    /\ ~EarlierSame

\* C16 amended: a step of the repetition for one prefix changes no file under
\* another prefix: it changes a file under its own prefix or a file of the
\* build tree.  The build tree is shared: every rpath step and every merge
\* of a later repetition is the step an earlier repetition already ran, on
\* the same per-target binary or universal file.
Thm_C16_RepetitionsShareBuildTree ==
  InInstallStep =>
    /\ Repetition \in 1..Len(args.install_prefixes)
    /\ IF Last.cmd.tool \in {"install_name_tool", "lipo"}
       THEN /\ IsPrefix(BuildPath, Target(Last))
            /\ Repetition > 1 => EarlierSame
       ELSE /\ IsPrefix(args.install_prefixes[Repetition], Target(Last))
            /\ Last.cmd.tool = "os.rename" =>
                 IsPrefix(args.install_prefixes[Repetition], Last.cmd.ins[1])
            /\ ~EarlierSame

Wit_C16_SecondRepetitionMerges ==
  /\ InInstallStep
  /\ Len(args.install_prefixes) = 2
  /\ Repetition = 2
  /\ LastIs("lipo")
  /\ Last.rc = 0
  /\ EarlierSame

-----------------------------------------------------------------------------
(* Running the installation again *)

DriverDir(t) == BuildPath \o <<t, S(args.configuration)>>

DepLib(t, dep) == DriverDir(t) \o <<S("dependencies"), dep, S("lib")>>

\* the search paths the link records in a binary built for target t
LinkedRpaths(t) ==
  {join(DriverDir(t), S("lib"))} \cup {DepLib(t, d) : d \in linked}

\* the search paths of the slice for target t of an installed executable and
\* of the installed library n after one successful install
ExecutableRpaths(t) ==
  (LinkedRpaths(t)
   \ {join(DriverDir(t), S("lib")), DepLib(t, S("swift-tools-support-core")),
      DepLib(t, S("swift-argument-parser"))})
  \cup {InstallRpath}

LibraryRpaths(n, t) ==
  LET deps == {DepLib(t, S("swift-tools-support-core")),
               DepLib(t, S("llbuild"))}
  IN CASE n \in {S("libSwiftDriver"), S("libSwiftDriverExecution")} ->
            LinkedRpaths(t) \ ({join(DriverDir(t), S("lib"))} \cup deps)
       [] n \in {S("libSwiftOptions"), S("libTSCBasic"), S("libTSCLibc"),
                 S("libTSCUtility")} ->
            LinkedRpaths(t) \ deps
       [] OTHER -> LinkedRpaths(t)

\* the tree one successful install for the targets leaves in a prefix,
\* relative to the prefix
InstalledTree(prefix) ==
  {<<<<S("bin"), ExecutableNames[k]>>,
     {Slice(t, ExecutableRpaths(t)) : t \in Range(targets)}>> : k \in 1..2}
  \cup {<<<<S("lib"), S("swift"), S("macosx"), n \o shared_lib_ext(system)>>,
          {Slice(t, LibraryRpaths(n, t)) : t \in Range(targets)}>> :
          n \in DeclaredLibraryNames}
  \cup {<<<<S("lib"), S("swift"), S("macosx"), m \o S(".swiftmodule"),
            t \o ModuleExts[k]>>,
          {Slice(t, {})}>> :
          m \in ModuleNames, t \in Range(targets), k \in 1..2}
  \cup {<<<<S("include"), S("swift"), S("TSCclibc")>> \o e[1], e[2]>> :
          e \in TreeOf(files, TsccIncludeDir)}
  \cup {e \in TreeOf(InitialFiles, prefix) :
          ~IsPrefix(<<S("include"), S("swift"), S("TSCclibc")>>, e[1])}

\* the run is the only one, or repeats the earlier one for the same targets
SameInputs == history = <<>> \/ targets = history[1].targets

InstalledBinaries ==
  UNION {Under(files, join(args.install_prefixes[i], S("bin")))
         \cup {join(InstallLib(args.install_prefixes[i]),
                    n \o shared_lib_ext(system)) : n \in DeclaredLibraryNames} :
           i \in 1..Len(args.install_prefixes)}

\* C17 as stated: a second run on the same inputs that succeeds, after a
\* run that succeeded or failed, leaves in each prefix what one successful
\* run leaves, and no installed executable or library has a search path
\* into the build tree.
Orig_C17_RerunNoBuildTreePaths ==
  (DarwinInstall /\ Succeeded /\ history # <<>> /\ SameInputs) =>
    /\ \A i \in 1..Len(args.install_prefixes) :
         TreeOf(files, args.install_prefixes[i])
           = InstalledTree(args.install_prefixes[i])
    /\ \A f \in InstalledBinaries :
         exists(files, f) /\ \A r \in RpathsOf(f) : ~IsPrefix(BuildPath, r)

\* C17 amended: a successful install, the first or a second one on the same
\* inputs after a run that succeeded or failed partway, leaves in each
\* prefix the same tree: the same files, each executable and library with
\* the same search paths per target (the paths its fix-up deletes absent,
\* the install-relative path on the executables, the build-tree paths no
\* fix-up step deletes still there).  A second run after a successful one
\* changes no file at all, and no second run ends at a search-path step.
Thm_C17_RerunIdempotent ==
  /\ (DarwinInstall /\ Succeeded /\ SameInputs) =>
       \A i \in 1..Len(args.install_prefixes) :
         TreeOf(files, args.install_prefixes[i])
           = InstalledTree(args.install_prefixes[i])
  /\ (Succeeded /\ history # <<>> /\ SameInputs
        /\ history[1].exit_status = 0) =>
       files = history[1].files
  /\ (history # <<>> /\ LastIs("install_name_tool")) => pc = "run"

Wit_C17_RerunAfterFailure ==
  /\ history # <<>>
  /\ history[1].exit_status # 0
  /\ exists(history[1].files,
            join(join(args.install_prefixes[1], S("bin")), S("swift-driver")))
  /\ ~exists(history[1].files,
             join(join(args.install_prefixes[1], S("bin")), S("swift-help")))
  /\ Succeeded
  /\ targets = history[1].targets
  /\ Len(targets) = 2
  /\ TreeOf(files, args.install_prefixes[1])
       = InstalledTree(args.install_prefixes[1])

-----------------------------------------------------------------------------
(* Stages of the install action *)

ChainDone ==
  /\ Len(BuildSteps) = 10 * Len(targets)
  /\ \A j \in 1..Len(BuildSteps) : BuildSteps[j].rc = 0

\* C18: in the install action on Darwin no rpath step, merge or copy runs
\* before every package has been configured and built for every target, and
\* none is followed by a configure or build step; a file copied from the
\* universal directory into a prefix is the output of the successful merge
\* that is the step before the copy, and every other copied file is a module
\* file of one target, which has no merge.
Thm_C18_BuildThenMergeThenCopy ==
  /\ InInstallStep =>
       /\ ChainDone
       /\ (LastIs("rsync") /\ IsPrefix(UniversalDir, Last.cmd.ins[1])) =>
            /\ Len(log) > 1
            /\ log[Len(log) - 1].cmd.tool = "lipo"
            /\ log[Len(log) - 1].rc = 0
            /\ log[Len(log) - 1].cmd.out = Last.cmd.ins[1]
       /\ (LastIs("rsync") /\ ~IsPrefix(UniversalDir, Last.cmd.ins[1])) =>
            \E m \in ModuleNames, t \in Range(targets), k \in 1..2 :
              /\ basename(Last.cmd.ins[1]) = m \o ModuleExts[k]
              /\ IsPrefix(DriverDir(t), Last.cmd.ins[1])
  /\ (DarwinInstall /\ log # <<>> /\ IsBuildStep(Last)) =>
       NoStep(InstallTools)

Wit_C18_LibraryCopiedAfterMerge ==
  /\ InInstallStep
  /\ LastIs("rsync")
  /\ Last.rc = 0
  /\ Len(targets) = 2
  /\ Last.cmd.ins = <<LibraryFile(S("libllbuild"))>>
  /\ ChainDone

\* C19: ninja is given the build target products/all when it runs in the
\* build directory of llbuild, and no build target for any other package.
Thm_C19_NinjaTargetOnlyLlbuild ==
  \A i \in 1..Len(log) :
    Tool(i) = "ninja" =>
      IF basename(log[i].cmd.cwd) = S("llbuild")
      THEN log[i].cmd.ins = <<<<S("products/all")>>>>
      ELSE /\ log[i].cmd.ins = <<>>
           /\ \E k \in 2..5, t \in Range(targets) :
                log[i].cmd.cwd = ChainDir(t, ChainOrder[k])

Wit_C19_DriverBuiltWholeGraph ==
  /\ LastIs("ninja")
  /\ Last.rc = 0
  /\ Len(targets) = 2
  /\ Last.cmd.cwd = ChainDir(targets[2], S("swift-driver"))
  /\ Last.cmd.ins = <<>>
  /\ \E i \in 1..Len(log) :
       /\ Tool(i) = "ninja"
       /\ log[i].cmd.cwd = ChainDir(targets[2], S("llbuild"))
       /\ log[i].cmd.ins = <<<<S("products/all")>>>>

FlagsNamed(flags, n) == {k \in 1..Len(flags) : flags[k].name = n}

DeploymentFlags(c) == FlagsNamed(c.flags, "-DCMAKE_OSX_DEPLOYMENT_TARGET")

\* C20: the Swift flags of every configure command for target T have
\* exactly one -target flag, which names T, and at most one -sdk flag, and
\* the command has as many deployment-target flags as the configure command
\* of the same package had for the first target.
Orig_C20_OneTargetFlag ==
  LastIs("cmake") =>
    LET sf == Last.cmd.swift_flags
        t == TargetOfDir(Last.cmd.cwd)
    IN /\ Cardinality(FlagsNamed(sf, "-target")) = 1
       /\ \A k \in FlagsNamed(sf, "-target") : sf[k].val = <<t>>
       /\ Cardinality(FlagsNamed(sf, "-sdk")) <= 1
       /\ \A i \in 1..Len(log), k \in 1..5 :
            (/\ Tool(i) = "cmake"
             /\ log[i].cmd.cwd = ChainDir(targets[1], ChainOrder[k])
             /\ Last.cmd.cwd = ChainDir(t, ChainOrder[k]))
            => Cardinality(DeploymentFlags(Last.cmd))
                 = Cardinality(DeploymentFlags(log[i].cmd))

-----------------------------------------------------------------------------
(* The renames of install_module *)

\* entry e copies or renames in the module directory of m under prefix p the
\* file with extension ModuleExts[k] built for the target targets[j]
ModuleStep(e, i, m, j, k) ==
  /\ e.cmd.ins # <<>>
  /\ basename(e.cmd.ins[1]) = m \o ModuleExts[k]
  /\ IF e.cmd.tool = "rsync"
     THEN /\ e.cmd.out = ModuleDir(args.install_prefixes[i], m)
          /\ IsPrefix(join(BuildPath, targets[j]), e.cmd.ins[1])
     ELSE /\ e.cmd.tool = "os.rename"
          /\ dirname(e.cmd.ins[1]) = ModuleDir(args.install_prefixes[i], m)
          /\ e.cmd.out = ModuleFile(args.install_prefixes[i], m, targets[j],
                                    ModuleExts[k])

\* the module file of targets[j] is in place with the content built for it
Renamed(i, m, j, k) ==
  LET f == ModuleFile(args.install_prefixes[i], m, targets[j], ModuleExts[k])
  IN exists(files, f) /\ files[f] = {Slice(targets[j], {})}

\* the files of the earlier targets, and the earlier file of targets[j]
RenamedBefore(i, m, j, k) ==
  \A j2 \in 1..j, k2 \in 1..2 :
    (j2 < j \/ k2 < k) => Renamed(i, m, j2, k2)

\* C21: in the module directory of M every successful copy is followed by
\* the rename of the copied file to the triple of its target; after the
\* rename of the last file no file M.swiftmodule or M.swiftdoc is in the
\* directory and every target has its one file per extension there, nothing
\* else; a copy that fails ends the run with no rename of that file, and the
\* files renamed before it are in place as they were.
Thm_C21_ModuleFilesRenamed ==
  DarwinInstall =>
    \A i \in 1..Len(args.install_prefixes), m \in ModuleNames :
      \A j \in 1..Len(targets), k \in 1..2 :
        LET d == ModuleDir(args.install_prefixes[i], m)
            copied == join(d, m \o ModuleExts[k])
        IN /\ (Len(log) > 1 /\ log[Len(log) - 1].cmd.tool = "rsync"
                /\ ModuleStep(log[Len(log) - 1], i, m, j, k)) =>
                /\ Last.cmd.tool = "os.rename"
                /\ Last.rc = 0
                /\ ModuleStep(Last, i, m, j, k)
           /\ (LastIs("rsync") /\ ModuleStep(Last, i, m, j, k)
                /\ Last.rc = 0) =>
                pc = "run" /\ todo # <<>>
           /\ (LastIs("os.rename") /\ ModuleStep(Last, i, m, j, k)) =>
                /\ ~exists(files, copied)
                /\ Renamed(i, m, j, k)
                /\ RenamedBefore(i, m, j, k)
                /\ (j = Len(targets) /\ k = 2) =>
                     /\ \A k2 \in 1..2 :
                          ~exists(files, join(d, m \o ModuleExts[k2]))
                     /\ Under(files, d) = ModuleFilesOf(d, Range(targets))
                     /\ Cardinality(Under(files, d)) = 2 * Len(targets)
           /\ (LastIs("rsync") /\ ModuleStep(Last, i, m, j, k)
                /\ Last.rc # 0) =>
                /\ pc = "exited" /\ exit_status = 1 /\ todo = <<>>
                /\ ~exists(files, copied)
                /\ ~exists(files, ModuleFile(args.install_prefixes[i], m,
                                             targets[j], ModuleExts[k]))
                /\ RenamedBefore(i, m, j, k)

\* the copy of the second target's SwiftOptions.swiftdoc into the second
\* prefix failed after the three files before it were renamed
Wit_C21_CopyFailedAfterRenames ==
  /\ DarwinInstall
  /\ Len(targets) = 2
  /\ Len(args.install_prefixes) = 2
  /\ LastIs("rsync")
  /\ Last.rc # 0
  /\ ModuleStep(Last, 2, S("SwiftOptions"), 2, 2)
  /\ RenamedBefore(2, S("SwiftOptions"), 2, 2)
  /\ Cardinality(Under(files, ModuleDir(args.install_prefixes[2],
                                        S("SwiftOptions")))) = 3
  /\ Cardinality(Under(files, ModuleDir(args.install_prefixes[1],
                                        S("SwiftOptions")))) = 4

-----------------------------------------------------------------------------
(* The clean action *)

Cleaning == args.action = "clean" /\ pc # "main"

\* the files before the invocation
FilesBefore == IF history = <<>> THEN InitialFiles ELSE history[1].files

\* the files in fs that satisfy keep are those of FilesBefore, as they were
SameWhere(fs, keep(_)) ==
  /\ {f \in DOMAIN fs : keep(f)} = {f \in DOMAIN FilesBefore : keep(f)}
  /\ \A f \in DOMAIN fs : keep(f) => fs[f] = FilesBefore[f]

UnderSomePrefix(f) ==
  \E i \in 1..Len(args.install_prefixes) : IsPrefix(args.install_prefixes[i], f)

OutsideBuildPath(f) == ~IsPrefix(args.build_path, f)

UnderBuildPath(f) == IsPrefix(args.build_path, f)

Removed(i) ==
  /\ Tool(i) = "shutil.rmtree"
  /\ log[i].cmd.out = args.build_path

\* the steps of a clean and their outcome: only the two queries and the
\* removal of the build-output root run; the run fails only before the
\* removal is reached, and the removal leaves the root empty or, when it
\* failed, as it was
CleanSteps ==
  /\ \A i \in 1..Len(log) :
       \/ Tool(i) \in {"xcrun", "swiftc"}
       \/ Removed(i) /\ i = Len(log)
  /\ todo # <<>> => todo = <<Cmd("shutil.rmtree", None, <<>>, args.build_path,
                                  <<F("ignore_errors", None)>>, <<>>)>>
  /\ LastIs("shutil.rmtree") =>
       /\ exit_status = 0
       /\ pc = "run" \/ pc = "exited"
       /\ Last.rc = 0 => Under(files, args.build_path) = {}
       /\ Last.rc # 0 => /\ Under(files, args.build_path) # {}
                         /\ SameWhere(files, UnderBuildPath)
  /\ ~LastIs("shutil.rmtree") => files = FilesBefore
  /\ (pc = "exited" /\ exit_status = 0) => LastIs("shutil.rmtree")

\* C22 as stated: a clean runs none of the configure, build, merge,
\* search-path or copy steps, only removes the build-output root, which never
\* fails the run, and leaves every file under every install prefix as it was.
Orig_C22_CleanLeavesPrefixes ==
  Cleaning => CleanSteps /\ SameWhere(files, UnderSomePrefix)

\* C22: a clean runs none of the configure, build, merge, search-path or copy
\* steps, only removes the build-output root, which never fails the run, and
\* leaves every file outside the build-output root as it was, the files of an
\* install prefix among them.
Thm_C22_CleanRemovesBuildPathOnly ==
  Cleaning => CleanSteps /\ SameWhere(files, OutsideBuildPath)

\* a clean after a finished install into a prefix outside the build-output
\* root: the root is gone and the installed files are in the prefix
Wit_C22_CleanAfterInstall ==
  /\ Cleaning
  /\ history # <<>>
  /\ history[1].exit_status = 0
  /\ Under(history[1].files, UniversalDir) # {}
  /\ args.install_prefixes = <<PrefixName(1)>>
  /\ pc = "exited"
  /\ exit_status = 0
  /\ Under(files, args.build_path) = {}
  /\ Cardinality(Under(files, PrefixName(1))) > 2
  /\ SameWhere(files, UnderSomePrefix)

====
